---- MODULE Spec2Model ----
(***************************************************************************)
(* The Alpha Vantage fetch / cache layer of stock-app:                     *)
(*   diskCache        readFromDiskCache, writeToDiskCache, getCacheFilePath *)
(*   alphaVantage.ts  fetchAlphaVantage, getGlobalQuoteInternal            *)
(*                                                                         *)
(* Three specifications share the definitions below.                       *)
(*   SpecCache  one caller using the two exported cache functions          *)
(*              directly, one call after the other.                        *)
(*   Spec       NumProcs concurrent calls of fetchAlphaVantage, one        *)
(*              action per stretch of code between two awaits.             *)
(*   SpecKey    the cache key computed from parameter objects built in     *)
(*              every insertion order.                                     *)
(* The file system may fail any operation (EACCES, ENOSPC, EMFILE ...):    *)
(* every fs step draws its outcome from {succeeds, fails}.                 *)
(* Time is in milliseconds, as Date.now() returns it.  Code between two    *)
(* awaits runs to completion at one instant; the clock moves between       *)
(* steps only.                                                             *)
(***************************************************************************)
EXTENDS Integers, Sequences, FiniteSets, TLC

\* ---------------------------------------------------------------- bounds
\* Concurrent callers of fetchAlphaVantage.
NumProcs == 2
\* Calls of fetchAlphaVantage started in one behaviour (Spec).
MaxCalls == 2
\* Cache function calls in one behaviour (SpecCache).
MaxOps == 3
\* Clock advances in one behaviour.
MaxTicks == 2

\* ------------------------------------------------------ program constants
DAY_IN_SECONDS == 60 * 60 * 24
DISK_CACHE_TTL_MS == DAY_IN_SECONDS * 1000

\* The clock advances by one of these amounts: a millisecond, or the TTL
\* of fetchAlphaVantage.  An entry written at t is read at t, t+1, t+T and
\* t+T+1, on both sides of the 24 hours.
TimeSteps == {1, DISK_CACHE_TTL_MS}

\* ------------------------------------------------------------ JSON values
\* A JSON value as the code inspects it: its typeof and, for a string, its
\* text.
JUndefined == [type |-> "undefined", val |-> ""]
JString(s) == [type |-> "string", val |-> s]
JNumber(s) == [type |-> "number", val |-> s]

\* ------------------------------------------------- upstream response bodies
QuoteFields ==
  {"02. open", "03. high", "04. low", "05. price", "06. volume",
   "07. latest trading day", "08. previous close", "09. change",
   "10. change percent"}

NoQuoteObject == [f \in QuoteFields |-> JUndefined]

GoodQuoteObject ==
  [f \in QuoteFields |->
     CASE f = "02. open" -> JString("310.2500")
       [] f = "03. high" -> JString("315.0000")
       [] f = "04. low" -> JString("305.5000")
       [] f = "05. price" -> JString("312.0000")
       [] f = "06. volume" -> JString("1,250")
       [] f = "07. latest trading day" -> JString("2024-01-05")
       [] f = "08. previous close" -> JString("310.0000")
       [] f = "09. change" -> JString("2.0000")
       [] f = "10. change percent" -> JString("0.6452%")]

\* An AlphaVantagePayload: the three sentinel fields and the "Global Quote"
\* member (hasQuote: the member is an object).
Body(note, err, info, hasQuote, quote) ==
  [Note |-> note, ErrorMessage |-> err, Information |-> info,
   hasQuote |-> hasQuote, GlobalQuote |-> quote]

RateLimitNote == "Thank you for using Alpha Vantage! Please retry later."
InvalidCallMessage == "Invalid API call."
PremiumInformation == "This is a Premium Endpoint."

\* The bodies response.json() can yield in the model.  A body is never
\* changed once parsed, so the state holds a body by its name and
\* Json(name) is the parsed object.
Payloads ==
  {"QuoteBody", "EmptyBody", "NoteBody", "ErrorBody", "InformationBody",
   "EmptyNoteQuoteBody", "DailyBody", "OverviewBody"}

Json(name) ==
  CASE name = "QuoteBody" ->
         Body(JUndefined, JUndefined, JUndefined, TRUE, GoodQuoteObject)
    [] name = "EmptyBody" ->
         Body(JUndefined, JUndefined, JUndefined, FALSE, NoQuoteObject)
    [] name = "NoteBody" ->
         Body(JString(RateLimitNote), JUndefined, JUndefined, FALSE,
              NoQuoteObject)
    [] name = "ErrorBody" ->
         Body(JUndefined, JString(InvalidCallMessage), JUndefined, FALSE,
              NoQuoteObject)
    [] name = "InformationBody" ->
         Body(JUndefined, JUndefined, JString(PremiumInformation), FALSE,
              NoQuoteObject)
    [] name = "EmptyNoteQuoteBody" ->
         Body(JString(""), JUndefined, JNumber("1"), TRUE, GoodQuoteObject)
    [] name \in {"DailyBody", "OverviewBody"} ->
         Body(JUndefined, JUndefined, JUndefined, FALSE, NoQuoteObject)

\* ---------------------------------------------------------------- requests
SUPPORTED_TICKERS == {"TSLA"}

Functions ==
  {"GLOBAL_QUOTE", "OVERVIEW", "TIME_SERIES_DAILY", "TIME_SERIES_DAILY_ADJUSTED"}

\* The params object of a call, as the sequence of its entries in insertion
\* order (Object.entries keeps insertion order for these names).
QuoteParams(symbol) == <<<<"function", "GLOBAL_QUOTE">>, <<"symbol", symbol>>>>
OverviewParams(symbol) == <<<<"function", "OVERVIEW">>, <<"symbol", symbol>>>>
DailyParams(fn, symbol) ==
  <<<<"function", fn>>, <<"symbol", symbol>>, <<"outputsize", "compact">>>>

Requests ==
  {QuoteParams(s) : s \in SUPPORTED_TICKERS}
    \cup {OverviewParams(s) : s \in SUPPORTED_TICKERS}
    \cup {DailyParams(fn, s) :
            fn \in {"TIME_SERIES_DAILY", "TIME_SERIES_DAILY_ADJUSTED"},
            s \in SUPPORTED_TICKERS}

ParamValue(params, name) ==
  LET i == CHOOSE j \in DOMAIN params : params[j][1] = name IN params[i][2]

\* ---------------------------------------------------------------- cache key
\* a.localeCompare(b) for the parameter names in use: their rank in the
\* collation order ("a" < "b" < "function" < "outputsize" < "symbol").
NameRank(name) ==
  CASE name = "a" -> 1
    [] name = "b" -> 2
    [] name = "function" -> 3
    [] name = "outputsize" -> 4
    [] name = "symbol" -> 5

LocaleCompare(a, b) ==
  IF NameRank(a) < NameRank(b) THEN -1
  ELSE IF NameRank(a) > NameRank(b) THEN 1 ELSE 0

\* Array.prototype.sort with the comparator ([a], [b]) => a.localeCompare(b):
\* a stable sort of the entries by name.
RECURSIVE InsertEntry(_, _)
InsertEntry(sorted, e) ==
  IF sorted = <<>> THEN <<e>>
  ELSE IF LocaleCompare(e[1], sorted[Len(sorted)][1]) >= 0
       THEN Append(sorted, e)
       ELSE Append(InsertEntry(SubSeq(sorted, 1, Len(sorted) - 1), e),
                   sorted[Len(sorted)])

RECURSIVE SortEntries(_)
SortEntries(entries) ==
  IF entries = <<>> THEN <<>>
  ELSE InsertEntry(SortEntries(SubSeq(entries, 1, Len(entries) - 1)),
                   entries[Len(entries)])

\* Faulty variant: the entries are serialised in insertion order.
SortedParams_Unsorted(params) == params

SortedParams(params) == SortEntries(params)

\* Faulty variant: the key is made of the endpoint function alone.
CacheKey_FunctionOnly(params) ==
  <<"alpha-vantage:",
    SelectSeq(SortedParams(params), LAMBDA e : e[1] = "function")>>

\* `alpha-vantage:${JSON.stringify(sortedParams)}`: the prefix and the
\* serialised array; JSON.stringify of an array of string pairs is
\* one-to-one, so the array stands for its text.
CacheKey(params) == <<"alpha-vantage:", SortedParams(params)>>

\* CACHE_ROOT/<sha256(key)>.json: the digest is taken to be one-to-one on
\* the keys in use.
GetCacheFilePath(key) == <<"CACHE_ROOT", "sha256", key, ".json">>

Keys == {CacheKey(r) : r \in Requests}
Paths == {GetCacheFilePath(k) : k \in Keys}

\* ------------------------------------------------------------ file contents
\* No file at the path (readFile fails with ENOENT).
NoFile == [kind |-> "ENOENT", timestamp |-> 0, data |-> "EmptyBody"]
\* A file JSON.parse cannot read (truncated, or not JSON at all).
Garbage == [kind |-> "garbage", timestamp |-> 0, data |-> "EmptyBody"]
\* A container whose timestamp is missing or not a finite number.
NoTimestamp(v) == [kind |-> "noTimestamp", timestamp |-> 0, data |-> v]
\* Faulty variant: the container is written without its timestamp.
Container_Untimed(t, v) == NoTimestamp(v)

\* JSON.stringify({timestamp, data}) as writeToDiskCache writes it.
Container(t, v) == [kind |-> "container", timestamp |-> t, data |-> v]
\* readFile failed with an error other than ENOENT.
ReadError == [kind |-> "EIO", timestamp |-> 0, data |-> "EmptyBody"]

\* A DiskCacheHit, and null.
Null == [hit |-> FALSE, data |-> "EmptyBody", timestamp |-> 0]
DiskCacheHit(v, t) == [hit |-> TRUE, data |-> v, timestamp |-> t]

\* Faulty variant: the entry expires one millisecond early (age < ttlMs).
IsFresh_Strict(raw, t, ttlMs) ==
  /\ raw.kind = "container"
  /\ t - raw.timestamp < ttlMs

\* Number.isFinite(parsed.timestamp) && Date.now() - parsed.timestamp <= ttlMs
IsFresh(raw, t, ttlMs) ==
  /\ raw.kind = "container"
  /\ t - raw.timestamp <= ttlMs

\* readFromDiskCache after readFile: "hit" returns the entry, "remove" goes
\* on to fs.rm, "null" is the catch block (ENOENT, another read error, a
\* JSON.parse or property access that throws).
Lookup(raw, t, ttlMs) ==
  IF raw.kind \in {"ENOENT", "EIO", "garbage"} THEN "null"
  ELSE IF IsFresh(raw, t, ttlMs) THEN "hit"
  ELSE "remove"

\* Files a directory can hold before the program starts: left by an earlier
\* run (written at instant 0) or damaged since.
PriorContents ==
  {Garbage, NoTimestamp("QuoteBody"), Container(0, "QuoteBody")}

EmptyStore == [f \in Paths |-> NoFile]

\* At start the directory is empty or holds one file, at the path of the
\* GLOBAL_QUOTE request.
InitialStores ==
  {EmptyStore}
    \cup {[EmptyStore EXCEPT ![GetCacheFilePath(CacheKey(QuoteParams("TSLA")))] = c] :
            c \in PriorContents}

VARIABLES
  nodeEnv,       \* process.env.NODE_ENV
  now,           \* Date.now()
  ticks,         \* clock advances so far
  store,         \* the files under CACHE_ROOT, by path
  calls,         \* calls started so far
  last,          \* SpecCache: the cache call that has just returned
  pc, req, cached, payload, fetchedAt, result,
                 \* Spec: each caller's position and locals
  http, wrote,   \* Spec: requests sent and writeToDiskCache calls made by the call
  startedEmpty,  \* Spec: the directory was empty when the call started
  prior,         \* Spec: for each call, the call started just before it and
                 \* whether its own fs.readFile failed
  firstTry,      \* SpecPage: what the TIME_SERIES_DAILY call ended with, once
                 \* the adjusted series has been asked for instead
  arg, ret       \* SpecKey: the parameter objects and their keys

vars ==
  <<nodeEnv, now, ticks, store, calls, last,
    pc, req, cached, payload, fetchedAt, result, http, wrote, startedEmpty,
    prior, firstTry, arg, ret>>

procVars ==
  <<pc, req, cached, payload, fetchedAt, result, http, wrote, startedEmpty,
    prior, firstTry>>
keyVars == <<arg, ret>>

Procs == 1 .. NumProcs

\* Faulty variant: the cache is on whatever NODE_ENV is.
DISK_CACHE_ENABLED_Always == TRUE

DISK_CACHE_ENABLED == nodeEnv # "production"

\* ------------------------------------------------------------------ clock
Tick ==
  /\ ticks < MaxTicks
  /\ \E d \in TimeSteps : now' = now + d
  /\ ticks' = ticks + 1
  /\ UNCHANGED <<nodeEnv, store, calls, last, procVars, keyVars>>

\* new Date(ms).toISOString(): the text of the instant, one text per
\* millisecond.
ToISOString(ms) == <<"ISO-8601", ms>>

\* --------------------------------------------------------- fs operations
\* Faulty variant: the stale file is left in place.
AfterRm_Kept(files, f, rmOk) == files

\* fs.rm(filePath, {force: true}): the file is gone, unless rm fails.
AfterRm(files, f, rmOk) ==
  IF rmOk THEN [files EXCEPT ![f] = NoFile] ELSE files

\* fs.writeFile either replaces the file, or fails before opening it
\* (EACCES: the file is as before), or fails after truncating it (ENOSPC:
\* what is left does not parse).
WriteOutcomes == {"ok", "EACCES", "ENOSPC"}

\* Faulty variant: an existing file is not replaced (flag "wx").
AfterWriteFile_KeepExisting(files, f, content, outcome) ==
  IF outcome = "ok" /\ files[f] = NoFile THEN [files EXCEPT ![f] = content]
  ELSE files

AfterWriteFile(files, f, content, outcome) ==
  CASE outcome = "ok" -> [files EXCEPT ![f] = content]
    [] outcome = "EACCES" -> files
    [] outcome = "ENOSPC" -> [files EXCEPT ![f] = Garbage]

\* ------------------------------------------------ SpecCache: direct calls
DirectKeys == {CacheKey(QuoteParams("TSLA")), CacheKey(OverviewParams("TSLA"))}
DirectValues == {"QuoteBody", "NoteBody"}
DirectTtls == {0, 1, DISK_CACHE_TTL_MS}

NoCall ==
  [op |-> "none", key |-> <<>>, ttl |-> 0, value |-> "EmptyBody", at |-> 0,
   before |-> NoFile, readOk |-> TRUE, rmOk |-> TRUE, out |-> Null,
   threw |-> FALSE]

\* readFromDiskCache(key, ttlMs), awaited to its return.
ReadFromDiskCache(key, ttlMs) ==
  /\ calls < MaxOps
  /\ calls' = calls + 1
  /\ \E readOk \in BOOLEAN, rmOk \in BOOLEAN :
       LET f == GetCacheFilePath(key)
           raw == IF readOk THEN store[f] ELSE ReadError
           step == IF DISK_CACHE_ENABLED THEN Lookup(raw, now, ttlMs) ELSE "null"
       IN /\ DISK_CACHE_ENABLED \/ readOk
          /\ step = "remove" \/ rmOk
          /\ store' = IF step = "remove" THEN AfterRm(store, f, rmOk) ELSE store
          /\ last' =
               [op |-> "read", key |-> key, ttl |-> ttlMs, value |-> "EmptyBody",
                at |-> now, before |-> store[f], readOk |-> readOk,
                rmOk |-> rmOk,
                out |-> IF step = "hit"
                        THEN DiskCacheHit(raw.data, raw.timestamp) ELSE Null,
                threw |-> FALSE]
  /\ UNCHANGED <<nodeEnv, now, ticks, procVars, keyVars>>

\* writeToDiskCache(key, value), awaited to its return or its rejection.
WriteToDiskCache(key, value) ==
  /\ calls < MaxOps
  /\ calls' = calls + 1
  /\ \E mkdirOk \in BOOLEAN, outcome \in WriteOutcomes :
       LET f == GetCacheFilePath(key)
           content == Container(now, value)
           reached == DISK_CACHE_ENABLED /\ mkdirOk
       IN /\ DISK_CACHE_ENABLED \/ (mkdirOk /\ outcome = "ok")
          /\ mkdirOk \/ outcome = "ok"
          /\ store' = IF reached
                      THEN AfterWriteFile(store, f, content, outcome)
                      ELSE store
          /\ last' =
               [op |-> "write", key |-> key, ttl |-> 0, value |-> value,
                at |-> now, before |-> store[f], readOk |-> TRUE,
                rmOk |-> TRUE, out |-> Null,
                threw |-> DISK_CACHE_ENABLED /\ (~mkdirOk \/ outcome # "ok")]
  /\ UNCHANGED <<nodeEnv, now, ticks, procVars, keyVars>>

NoQuote == [symbol |-> ""]

NoResult ==
  [status |-> "pending", data |-> "EmptyBody", quote |-> NoQuote,
   cachedAt |-> <<>>, error |-> "", message |-> ""]

\* What is kept of a call that starts when every other call has returned
\* and one of them, for the same parameters, got a 2xx response with a
\* body: its number among the calls started, the instant and the body of
\* that response and what that call ended with, and whether its own
\* fs.readFile failed.  Of any other call nothing is kept.
NoPrior == [callNo |-> 0, first |-> <<>>, readFailed |-> FALSE]

IdleProcs ==
  /\ pc = [p \in Procs |-> "idle"]
  /\ req = [p \in Procs |-> <<>>]
  /\ cached = [p \in Procs |-> Null]
  /\ payload = [p \in Procs |-> "EmptyBody"]
  /\ fetchedAt = [p \in Procs |-> 0]
  /\ result = [p \in Procs |-> NoResult]
  /\ http = [p \in Procs |-> 0]
  /\ wrote = [p \in Procs |-> 0]
  /\ startedEmpty = [p \in Procs |-> FALSE]
  /\ prior = [p \in Procs |-> NoPrior]
  /\ firstTry = NoResult

IdleKey ==
  /\ arg = <<>>
  /\ ret = <<>>

InitDisk ==
  /\ nodeEnv \in {"development", "production"}
  /\ now = 0
  /\ ticks = 0
  /\ store \in InitialStores
  /\ calls = 0
  /\ last = NoCall

InitCache == InitDisk /\ IdleProcs /\ IdleKey

NextCache ==
  \/ \E k \in DirectKeys, ttlMs \in DirectTtls : ReadFromDiskCache(k, ttlMs)
  \/ \E k \in DirectKeys, v \in DirectValues : WriteToDiskCache(k, v)
  \/ Tick

SpecCache == InitCache /\ [][NextCache]_vars

\* ------------------------------------------------------ string conversions
\* The texts the bodies above carry in their fields, and what the string
\* functions of the code make of each.
\* value.trim()
Trim(s) ==
  CASE s = "   " -> "" [] s = "  NASDAQ " -> "NASDAQ" [] s = " demo " -> "demo"
    [] OTHER -> s

\* value.replace(/,/g, "")
ReplaceCommas(s) == CASE s = "1,250" -> "1250" [] OTHER -> s

\* value.replace("%", "")
ReplacePercent(s) == CASE s = "0.6452%" -> "0.6452" [] OTHER -> s

\* Number.parseFloat: the number read from the longest numeric prefix, as
\* its shortest decimal text; "NaN" when there is none.
ParseFloat(s) ==
  CASE s = "310.2500" -> "310.25"
    [] s = "315.0000" -> "315"
    [] s = "305.5000" -> "305.5"
    [] s = "312.0000" -> "312"
    [] s = "310.0000" -> "310"
    [] s = "2.0000" -> "2"
    [] s = "0.6452" -> "0.6452"
    [] s = "1250" -> "1250"
    [] s = "1,250" -> "1"
    [] s = "2024-01-05" -> "2024"
    [] s = "312abc" -> "312"
    [] s = "Infinity" -> "Infinity"
    [] OTHER -> "NaN"

\* Number.parseInt(s, 10): the integer read from the longest prefix of
\* digits.
ParseInt(s) ==
  CASE s = "310.2500" -> "310"
    [] s = "315.0000" -> "315"
    [] s = "305.5000" -> "305"
    [] s = "312.0000" -> "312"
    [] s = "310.0000" -> "310"
    [] s = "2.0000" -> "2"
    [] s = "0.6452" -> "0"
    [] s = "1250" -> "1250"
    [] s = "1,250" -> "1"
    [] s = "2024-01-05" -> "2024"
    [] s = "312abc" -> "312"
    [] OTHER -> "NaN"

\* Number.isFinite
IsFinite(numeric) == numeric \notin {"NaN", "Infinity"}

\* A number | null of the code: the number's text, or "null".
NullNumber == "null"

parseNumber(value) ==
  IF value.type # "string" \/ Trim(value.val) = "" THEN NullNumber
  ELSE LET numeric == ParseFloat(ReplaceCommas(value.val))
       IN IF IsFinite(numeric) THEN numeric ELSE NullNumber

parsePercent(value) ==
  IF value.type # "string" THEN NullNumber
  ELSE parseNumber(JString(ReplacePercent(value.val)))

parseInteger(value) ==
  IF value.type # "string" \/ Trim(value.val) = "" THEN NullNumber
  ELSE LET numeric == ParseInt(ReplaceCommas(value.val))
       IN IF IsFinite(numeric) THEN numeric ELSE NullNumber

\* ---------------------------------------------------------------- results
\* The settled promise of a call: fulfilled with {data, cachedAt}, or
\* rejected with an error (its class name and message).
Fulfilled(data, quote, cachedAt) ==
  [status |-> "fulfilled", data |-> data, quote |-> quote,
   cachedAt |-> cachedAt, error |-> "", message |-> ""]

Rejected(name, message) ==
  [status |-> "rejected", data |-> "EmptyBody", quote |-> NoQuote,
   cachedAt |-> <<>>, error |-> name, message |-> message]

\* The message of the first sentinel field that is a non-empty string, in
\* the order the code tests them: Note, Error Message, Information; ""
\* when there is none.
IsMessage(field) == field.type = "string" /\ field.val # ""

SentinelMessage(json) ==
  IF IsMessage(json.Note) THEN json.Note.val
  ELSE IF IsMessage(json.ErrorMessage) THEN json.ErrorMessage.val
  ELSE IF IsMessage(json.Information) THEN json.Information.val
  ELSE ""

\* Faulty variant: a field that cannot be parsed is left null, never thrown.
requireNumberFails_Never(value) == FALSE

\* requireNumber and requireDate: whether they throw, and with what message.
requireNumberFails(value) == parseNumber(value) = NullNumber
requireDateFails(value) == value.type # "string" \/ Trim(value.val) = ""

MissingNumeric(field, symbol) ==
  "Missing numeric \"" \o field \o "\" in Alpha Vantage response for "
    \o symbol \o "."
MissingDate(symbol) ==
  "Missing date value in Alpha Vantage response for " \o symbol \o "."
MissingChangePercent(symbol) ==
  "Missing change percent in Alpha Vantage response for " \o symbol \o "."
UnexpectedShape(symbol) ==
  "Unexpected GLOBAL_QUOTE response shape for " \o symbol \o "."

\* The body of getGlobalQuoteInternal after fetchAlphaVantage has returned
\* the payload json: the fields are read in the order of the object
\* literal, and the first that throws ends the call.
Threw(message) == [ok |-> FALSE, quote |-> NoQuote, message |-> message]
Returned(quote) == [ok |-> TRUE, quote |-> quote, message |-> ""]

QuoteOf(symbol, json) ==
  LET data == json.GlobalQuote
  IN IF ~json.hasQuote THEN Threw(UnexpectedShape(symbol))
     ELSE IF requireNumberFails(data["02. open"])
     THEN Threw(MissingNumeric("open", symbol))
     ELSE IF requireNumberFails(data["03. high"])
     THEN Threw(MissingNumeric("high", symbol))
     ELSE IF requireNumberFails(data["04. low"])
     THEN Threw(MissingNumeric("low", symbol))
     ELSE IF requireNumberFails(data["05. price"])
     THEN Threw(MissingNumeric("price", symbol))
     ELSE IF requireNumberFails(data["08. previous close"])
     THEN Threw(MissingNumeric("previous close", symbol))
     ELSE IF requireNumberFails(data["09. change"])
     THEN Threw(MissingNumeric("change", symbol))
     ELSE IF parsePercent(data["10. change percent"]) = NullNumber
     THEN Threw(MissingChangePercent(symbol))
     ELSE IF requireDateFails(data["07. latest trading day"])
     THEN Threw(MissingDate(symbol))
     ELSE Returned(
            [symbol |-> symbol,
             open |-> parseNumber(data["02. open"]),
             high |-> parseNumber(data["03. high"]),
             low |-> parseNumber(data["04. low"]),
             price |-> parseNumber(data["05. price"]),
             previousClose |-> parseNumber(data["08. previous close"]),
             change |-> parseNumber(data["09. change"]),
             changePercent |-> parsePercent(data["10. change percent"]),
             latestTradingDay |-> data["07. latest trading day"].val,
             volume |-> parseInteger(data["06. volume"])])

\* getGlobalQuoteInternal on the payload of the body fetchAlphaVantage
\* returned with cachedAt.
GetGlobalQuote(symbol, body, cachedAt) ==
  LET r == QuoteOf(symbol, Json(body))
  IN IF r.ok THEN Fulfilled(body, r.quote, cachedAt)
     ELSE Rejected("AlphaVantageError", r.message)

\* fetchAlphaVantage from the sentinel tests on (lines 96-113), and then
\* the caller's continuation: getGlobalQuoteInternal for GLOBAL_QUOTE; the
\* other callers are handed the payload as it is.
Settle(params, body, cachedAt) ==
  LET message == SentinelMessage(Json(body))
  IN IF message # "" THEN Rejected("AlphaVantageError", message)
     ELSE IF ParamValue(params, "function") = "GLOBAL_QUOTE"
     THEN GetGlobalQuote(ParamValue(params, "symbol"), body, cachedAt)
     ELSE Fulfilled(body, NoQuote, cachedAt)

\* ------------------------------------------------------- upstream responses
\* What fetch() and response.json() can do: a 2xx response with a body (the
\* valid one, the empty object, or one with a sentinel field), a non-2xx
\* response, or fetch itself rejecting (no connection).
UpstreamBodies ==
  {"QuoteBody", "EmptyBody", "NoteBody", "ErrorBody", "InformationBody"}

Responses ==
  {[kind |-> "ok", body |-> b] : b \in UpstreamBodies}
    \cup {[kind |-> "500", body |-> "EmptyBody"],
          [kind |-> "network", body |-> "EmptyBody"]}

\* The valid body of the endpoint a request names.
ValidBody(params) ==
  CASE ParamValue(params, "function") = "GLOBAL_QUOTE" -> "QuoteBody"
    [] ParamValue(params, "function") = "OVERVIEW" -> "OverviewBody"
    [] OTHER -> "DailyBody"

\* What the upstream can answer to a request: the valid body of its
\* endpoint where Responses has the valid quote body, and the rest of
\* Responses.
ResponsesTo(params) ==
  {[r EXCEPT !.body = IF r.body = "QuoteBody" THEN ValidBody(params) ELSE r.body] :
     r \in Responses}

HttpErrorMessage == "Alpha Vantage responded with 500: Internal Server Error"

\* Faulty variant: a call answered from the cache is stamped with the current time.
HitCachedAt_Now(hit, t) == ToISOString(t)

\* cachedAt of a call answered from the cache (line 68), t being Date.now().
HitCachedAt(hit, t) == ToISOString(hit.timestamp)

\* -------------------------------------------- Spec: fetchAlphaVantage calls
PathOf(p) == GetCacheFilePath(CacheKey(req[p]))

\* The call these parameters were last sent by, when every call has
\* returned: the latest of the calls that got a 2xx response with a body
\* for them.
PriorCall(params) ==
  LET S == {r \in Procs : pc[r] = "done" /\ req[r] = params /\ wrote[r] = 1}
      latest == {r \in S : \A q \in S : prior[q].callNo <= prior[r].callNo}
  IN IF Cardinality(latest) = 1 /\ \A r \in Procs : pc[r] \in {"idle", "done"}
     THEN LET r == CHOOSE r \in latest : TRUE
          IN <<[at |-> fetchedAt[r], data |-> payload[r], result |-> result[r]]>>
     ELSE <<>>

\* A caller starts fetchAlphaVantage(params): the key is computed and
\* readFromDiskCache is entered; with the cache disabled it returns null at
\* once and the request is sent.
Call(p, params) ==
  /\ pc[p] \in {"idle", "done"}
  /\ calls < MaxCalls
  /\ calls' = calls + 1
  /\ req' = [req EXCEPT ![p] = params]
  /\ pc' = [pc EXCEPT ![p] = IF DISK_CACHE_ENABLED THEN "readFile" ELSE "fetch"]
  /\ cached' = [cached EXCEPT ![p] = Null]
  /\ payload' = [payload EXCEPT ![p] = "EmptyBody"]
  /\ fetchedAt' = [fetchedAt EXCEPT ![p] = 0]
  /\ result' = [result EXCEPT ![p] = NoResult]
  /\ http' = [http EXCEPT ![p] = 0]
  /\ wrote' = [wrote EXCEPT ![p] = 0]
  /\ startedEmpty' = [startedEmpty EXCEPT ![p] = (store = EmptyStore)]
  /\ prior' = [prior EXCEPT ![p] =
       IF PriorCall(params) = <<>> THEN NoPrior
       ELSE [callNo |-> calls + 1, first |-> PriorCall(params),
             readFailed |-> FALSE]]
  /\ UNCHANGED <<nodeEnv, now, ticks, store, last, firstTry, keyVars>>

\* fs.readFile settles and readFromDiskCache runs on to its return or to
\* fs.rm; on a hit fetchAlphaVantage runs to its end.
ReadFile(p) ==
  /\ pc[p] = "readFile"
  /\ \E readOk \in BOOLEAN :
       LET raw == IF readOk THEN store[PathOf(p)] ELSE ReadError
           step == Lookup(raw, now, DISK_CACHE_TTL_MS)
       IN /\ prior' = [prior EXCEPT ![p].readFailed = ~readOk /\ prior[p].first # <<>>]
          /\ IF step = "hit"
             THEN /\ cached' = [cached EXCEPT ![p] = DiskCacheHit(raw.data, raw.timestamp)]
                  /\ payload' = [payload EXCEPT ![p] = raw.data]
                  /\ result' = [result EXCEPT ![p] =
                       Settle(req[p], raw.data,
                              HitCachedAt(DiskCacheHit(raw.data, raw.timestamp), now))]
                  /\ pc' = [pc EXCEPT ![p] = "done"]
             ELSE /\ pc' = [pc EXCEPT ![p] = IF step = "remove" THEN "rm" ELSE "fetch"]
                  /\ UNCHANGED <<cached, payload, result>>
  /\ UNCHANGED <<nodeEnv, now, ticks, store, calls, last, req, fetchedAt,
                 http, wrote, startedEmpty, firstTry,
                 keyVars>>

\* fs.rm settles; readFromDiskCache returns null whether it failed or not.
Rm(p) ==
  /\ pc[p] = "rm"
  /\ \E rmOk \in BOOLEAN : store' = AfterRm(store, PathOf(p), rmOk)
  /\ pc' = [pc EXCEPT ![p] = "fetch"]
  /\ UNCHANGED <<nodeEnv, now, ticks, calls, last, req, cached, payload,
                 fetchedAt, result, http, wrote, startedEmpty, prior,
                 firstTry,
                 keyVars>>

\* fetch() and response.json() settle.  A body sets cachedAt and enters
\* writeToDiskCache, which takes its timestamp before its first await.
Fetch(p) ==
  /\ pc[p] = "fetch"
  /\ http' = [http EXCEPT ![p] = @ + 1]
  /\ \E response \in ResponsesTo(req[p]) :
       CASE response.kind = "network" ->
              /\ result' = [result EXCEPT ![p] = Rejected("TypeError", "fetch failed")]
              /\ pc' = [pc EXCEPT ![p] = "done"]
              /\ UNCHANGED <<payload, fetchedAt, wrote>>
         [] response.kind = "500" ->
              /\ result' = [result EXCEPT ![p] =
                   Rejected("AlphaVantageError", HttpErrorMessage)]
              /\ pc' = [pc EXCEPT ![p] = "done"]
              /\ UNCHANGED <<payload, fetchedAt, wrote>>
         [] response.kind = "ok" ->
              /\ payload' = [payload EXCEPT ![p] = response.body]
              /\ fetchedAt' = [fetchedAt EXCEPT ![p] = now]
              /\ wrote' = [wrote EXCEPT ![p] = @ + 1]
              /\ IF DISK_CACHE_ENABLED
                 THEN /\ pc' = [pc EXCEPT ![p] = "mkdir"]
                      /\ UNCHANGED result
                 ELSE /\ pc' = [pc EXCEPT ![p] = "done"]
                      /\ result' = [result EXCEPT ![p] =
                           Settle(req[p], response.body, ToISOString(now))]
  /\ UNCHANGED <<nodeEnv, now, ticks, store, calls, last, req, cached,
                 startedEmpty, prior, firstTry,
                 keyVars>>

\* fs.mkdir settles; its rejection is the rejection of fetchAlphaVantage.
Mkdir(p) ==
  /\ pc[p] = "mkdir"
  /\ \E mkdirOk \in BOOLEAN :
       IF mkdirOk
       THEN /\ pc' = [pc EXCEPT ![p] = "writeFile"]
            /\ UNCHANGED result
       ELSE /\ pc' = [pc EXCEPT ![p] = "done"]
            /\ result' = [result EXCEPT ![p] = Rejected("Error", "EACCES")]
  /\ UNCHANGED <<nodeEnv, now, ticks, store, calls, last, req, cached,
                 payload, fetchedAt, http, wrote, startedEmpty, prior,
                 firstTry,
                 keyVars>>

\* fs.writeFile settles; fetchAlphaVantage then runs to its end, or
\* rejects with the error of writeFile.
WriteFile(p) ==
  /\ pc[p] = "writeFile"
  /\ \E outcome \in WriteOutcomes :
       /\ store' = AfterWriteFile(store, PathOf(p),
                     Container(fetchedAt[p], payload[p]), outcome)
       /\ result' = [result EXCEPT ![p] =
            IF outcome = "ok"
            THEN Settle(req[p], payload[p], ToISOString(fetchedAt[p]))
            ELSE Rejected("Error", outcome)]
  /\ pc' = [pc EXCEPT ![p] = "done"]
  /\ UNCHANGED <<nodeEnv, now, ticks, calls, last, req, cached, payload,
                 fetchedAt, http, wrote, startedEmpty, prior, firstTry,
                 keyVars>>

Init == InitDisk /\ IdleProcs /\ IdleKey

Next ==
  \/ \E p \in Procs, params \in Requests : Call(p, params)
  \/ \E p \in Procs : ReadFile(p)
  \/ \E p \in Procs : Rm(p)
  \/ \E p \in Procs : Fetch(p)
  \/ \E p \in Procs : Mkdir(p)
  \/ \E p \in Procs : WriteFile(p)
  \/ Tick

Spec == Init /\ [][Next]_vars

\* --------------------------------------------------- SpecKey: the cache key
\* Parameter objects: those of the four requests and {a: "1", b: "2"}, each
\* built in every insertion order.
EntrySets ==
  {{r[i] : i \in DOMAIN r} : r \in Requests}
    \cup {{<<"a", "1">>, <<"b", "2">>}, {<<"a", "2">>, <<"b", "1">>}}

Orderings(S) ==
  {seq \in [1 .. Cardinality(S) -> S] :
     \A i, j \in 1 .. Cardinality(S) : seq[i] = seq[j] => i = j}

ParamObjects == UNION {Orderings(S) : S \in EntrySets}

Entries(params) == {params[i] : i \in DOMAIN params}

InitKey ==
  /\ nodeEnv = "development"
  /\ now = 0
  /\ ticks = 0
  /\ store = EmptyStore
  /\ calls = 0
  /\ last = NoCall
  /\ IdleProcs
  /\ arg \in ParamObjects \X ParamObjects
  /\ ret = <<>>

\* The first two statements of fetchAlphaVantage on each of the two
\* objects, and the file each key names.
ComputeKeys ==
  /\ ret = <<>>
  /\ ret' = <<CacheKey(arg[1]), CacheKey(arg[2])>>
  /\ UNCHANGED <<nodeEnv, now, ticks, store, calls, last, procVars, arg>>

NextKey == ComputeKeys

SpecKey == InitKey /\ [][NextKey]_vars

\* ----------------------------------------------- SpecQuote: normalisation
\* What a field of the "Global Quote" member can hold instead of its
\* proper text: nothing, blanks, text that is no number, text that starts
\* with a number, a number too large to be finite, a JSON number.
FieldFaults ==
  {JUndefined, JString("   "), JString("N/A"), JString("312abc"),
   JString("Infinity"), JNumber("312")}

\* The valid member with at most two of its fields at fault.
QuoteObjects ==
  {[GoodQuoteObject EXCEPT ![f] = v, ![g] = w] :
     f \in QuoteFields, g \in QuoteFields, v \in FieldFaults, w \in FieldFaults}
    \cup {[GoodQuoteObject EXCEPT ![f] = v] : f \in QuoteFields, v \in FieldFaults}
    \cup {GoodQuoteObject}

QuoteInputs ==
  {Body(JUndefined, JUndefined, JUndefined, TRUE, q) : q \in QuoteObjects}
    \cup {Body(JUndefined, JUndefined, JUndefined, FALSE, NoQuoteObject)}

\* The file-system and caller state of the specifications that apply a
\* pure function: nothing is called, the directory is empty.
InitPure ==
  /\ nodeEnv = "development"
  /\ now = 0
  /\ ticks = 0
  /\ store = EmptyStore
  /\ calls = 0
  /\ last = NoCall
  /\ IdleProcs

InitQuote ==
  /\ InitPure
  /\ arg \in QuoteInputs
  /\ ret = <<>>

NormalizeQuote ==
  /\ ret = <<>>
  /\ \E symbol \in SUPPORTED_TICKERS : ret' = <<QuoteOf(symbol, arg)>>
  /\ UNCHANGED <<nodeEnv, now, ticks, store, calls, last, procVars, arg>>

NextQuote == NormalizeQuote

SpecQuote == InitQuote /\ [][NextQuote]_vars

\* ------------------------------------------------- SpecDaily: daily series
\* Dated entries in one "Time Series (Daily)" object.
MaxDays == 3

\* The two digits of a day of the month, as toISOString writes them.
DayText(d) ==
  CASE d = 1 -> "01" [] d = 2 -> "02" [] d = 3 -> "03" [] d = 4 -> "04"
    [] d = 5 -> "05" [] d = 6 -> "06" [] d = 7 -> "07" [] d = 8 -> "08"
    [] d = 9 -> "09" [] d = 10 -> "10"

\* new Date(Date.UTC(2024, 0, dayIndex + 1)).toISOString().slice(0, 10)
MockDate(dayIndex) == "2024-01-" \o DayText(dayIndex + 1)

\* The length of the mock series.
MockSeriesLength == 10

\* a > b for two date texts: the order of their code units, which for the
\* dates in use is the order of their days.
DayOf(date) == CHOOSE d \in 1 .. MockSeriesLength : DayText(d) = SubSeq(date, 9, 10)
DateGreater(a, b) == DayOf(a) > DayOf(b)

Dates == {MockDate(i) : i \in 0 .. MaxDays - 1}

\* The per-day object of the API, by the fields the code reads.
DayValues(open, high, low, close, volume5, volume6) ==
  [open |-> open, high |-> high, low |-> low, close |-> close,
   volume5 |-> volume5, volume6 |-> volume6]

GoodDay ==
  DayValues(JString("310.2500"), JString("315.0000"), JString("305.5000"),
            JString("312.0000"), JString("1,250"), JUndefined)

DayObjects ==
  {GoodDay,
   [GoodDay EXCEPT !.close = JString("N/A")],
   [GoodDay EXCEPT !.close = JUndefined],
   [GoodDay EXCEPT !.open = JUndefined],
   [GoodDay EXCEPT !.high = JString("N/A")],
   [GoodDay EXCEPT !.low = JUndefined],
   [GoodDay EXCEPT !.close = JString("N/A"), !.open = JUndefined],
   [GoodDay EXCEPT !.volume5 = JString("N/A")]}

\* Object.entries(rawSeries): the dated entries in insertion order, no
\* date twice (the dates are the keys of one object).
SeriesEntries ==
  UNION {{e \in [1 .. n -> Dates \X DayObjects] :
            \A i, j \in 1 .. n : e[i][1] = e[j][1] => i = j} :
         n \in 0 .. MaxDays}

\* A daily payload: whether "Time Series (Daily)" is an object, and its
\* entries.
DailyPayload(hasSeries, entries) == [hasSeries |-> hasSeries, series |-> entries]

DailyInputs ==
  {DailyPayload(TRUE, e) : e \in SeriesEntries} \cup {DailyPayload(FALSE, <<>>)}

SeriesThrew(message) == [ok |-> FALSE, points |-> <<>>, message |-> message]
SeriesReturned(points) == [ok |-> TRUE, points |-> points, message |-> ""]

UnexpectedSeriesShape(symbol) ==
  "Unexpected TIME_SERIES_DAILY response shape for " \o symbol \o "."
NoSeriesData(symbol) == "TIME_SERIES_DAILY returned no data for " \o symbol \o "."

\* Faulty variant: an entry whose close does not parse fails the series.
DailyPoint_CloseRequired(date, values, symbol) ==
  IF requireNumberFails(values.close)
  THEN [kind |-> "throw", message |-> MissingNumeric("close", symbol)]
  ELSE [kind |-> "point",
        point |->
          [date |-> date,
           open |-> parseNumber(values.open),
           high |-> parseNumber(values.high),
           low |-> parseNumber(values.low),
           close |-> parseNumber(values.close),
           volume |-> parseInteger(values.volume5)]]

\* Faulty variant: an entry without a readable open, high or low is dropped
\* like one without a readable close.
DailyPoint_DropsIncomplete(date, values, symbol) ==
  IF parseNumber(values.close) = NullNumber
       \/ requireNumberFails(values.open)
       \/ requireNumberFails(values.high)
       \/ requireNumberFails(values.low)
  THEN [kind |-> "null"]
  ELSE [kind |-> "point",
        point |->
          [date |-> date,
           open |-> parseNumber(values.open),
           high |-> parseNumber(values.high),
           low |-> parseNumber(values.low),
           close |-> parseNumber(values.close),
           volume |-> parseInteger(IF values.volume6 # JUndefined
                                   THEN values.volume6 ELSE values.volume5)]]

\* The callback of entries.map: null for an entry whose close does not
\* parse, a throw of requireNumber, or the point.
DailyPoint(date, values, symbol) ==
  IF parseNumber(values.close) = NullNumber THEN [kind |-> "null"]
  ELSE IF requireNumberFails(values.open)
  THEN [kind |-> "throw", message |-> MissingNumeric("open", symbol)]
  ELSE IF requireNumberFails(values.high)
  THEN [kind |-> "throw", message |-> MissingNumeric("high", symbol)]
  ELSE IF requireNumberFails(values.low)
  THEN [kind |-> "throw", message |-> MissingNumeric("low", symbol)]
  ELSE [kind |-> "point",
        point |->
          [date |-> date,
           open |-> parseNumber(values.open),
           high |-> parseNumber(values.high),
           low |-> parseNumber(values.low),
           close |-> parseNumber(values.close),
           volume |-> parseInteger(IF values.volume6 # JUndefined
                                   THEN values.volume6 ELSE values.volume5)]]

\* entries.map(...).filter(item => item !== null): the points in entry
\* order, or the first throw.
RECURSIVE MapPoints(_, _)
MapPoints(entries, symbol) ==
  IF entries = <<>> THEN SeriesReturned(<<>>)
  ELSE LET first == DailyPoint(entries[1][1], entries[1][2], symbol)
           rest == MapPoints(Tail(entries), symbol)
       IN IF first.kind = "throw" THEN SeriesThrew(first.message)
          ELSE IF ~rest.ok THEN rest
          ELSE IF first.kind = "null" THEN rest
          ELSE SeriesReturned(<<first.point>> \o rest.points)

\* Faulty variant: (a, b) => (a.date > b.date ? -1 : 1)
CompareAscending_Reversed(a, b) == IF DateGreater(a.date, b.date) THEN -1 ELSE 1

\* (a, b) => (a.date > b.date ? 1 : -1), of getDailySeriesInternal.
CompareAscending(a, b) == IF DateGreater(a.date, b.date) THEN 1 ELSE -1

\* (a, b) => (a.date > b.date ? -1 : 1), of parseTimeSeriesDaily.
CompareDescending(a, b) == IF DateGreater(a.date, b.date) THEN -1 ELSE 1

\* The comparator of the call site: "server" for getDailySeriesInternal,
\* "browser" for parseTimeSeriesDaily.
Compare(site, a, b) ==
  IF site = "server" THEN CompareAscending(a, b) ELSE CompareDescending(a, b)

\* Array.prototype.sort with the comparator of the site: each element goes
\* before the first one of the sorted part it compares below.
RECURSIVE InsertPoint(_, _, _)
InsertPoint(sorted, e, site) ==
  IF sorted = <<>> THEN <<e>>
  ELSE IF Compare(site, e, sorted[1]) < 0 THEN <<e>> \o sorted
  ELSE <<sorted[1]>> \o InsertPoint(Tail(sorted), e, site)

RECURSIVE SortPoints(_, _)
SortPoints(points, site) ==
  IF points = <<>> THEN <<>>
  ELSE InsertPoint(SortPoints(SubSeq(points, 1, Len(points) - 1), site),
                   points[Len(points)], site)

\* The body of getDailySeriesInternal after fetchDailySeriesPayload has
\* returned the payload.
DailySeriesOf(symbol, daily) ==
  IF ~daily.hasSeries THEN SeriesThrew(UnexpectedSeriesShape(symbol))
  ELSE IF Len(daily.series) = 0 THEN SeriesThrew(NoSeriesData(symbol))
  ELSE LET mapped == MapPoints(daily.series, symbol)
       IN IF mapped.ok
          THEN SeriesReturned(SortPoints(mapped.points, "server"))
          ELSE mapped

\* ------------------------------------------------ browser: daily series
\* entries.map and validEntries of parseTimeSeriesDaily: the entries whose
\* close and volume are finite, in entry order.
RECURSIVE ValidEntries(_)
ValidEntries(entries) ==
  IF entries = <<>> THEN <<>>
  ELSE LET date == entries[1][1]
           values == entries[1][2]
           close == ParseFloat(values.close.val)
           volume == ParseInt(values.volume5.val)
           rest == ValidEntries(Tail(entries))
       IN IF IsFinite(close) /\ IsFinite(volume)
          THEN <<[date |-> date, close |-> close, volume |-> volume]>> \o rest
          ELSE rest

\* alphaDailySeriesSchema.parse: every entry must have strings at
\* "4. close" and "5. volume".
SchemaAccepts(entries) ==
  \A i \in DOMAIN entries :
    /\ entries[i][2].close.type = "string"
    /\ entries[i][2].volume5.type = "string"

\* parseTimeSeriesDaily(data)
ParseTimeSeriesDaily(daily) ==
  IF ~daily.hasSeries
  THEN SeriesThrew("AlphaVantage response missing time series data")
  ELSE IF ~SchemaAccepts(daily.series) THEN SeriesThrew("ZodError")
  ELSE SeriesReturned(SortPoints(ValidEntries(daily.series), "browser"))

\* ------------------------------------------------------ browser: mock data
STOCK_TICKERS ==
  <<"CRWV", "NBIS", "WULF", "WYFI", "CRDO", "CXDO", "GEV", "SSSS", "FLEX",
    "CCOI", "GD", "CORZ", "IREN", "CIFR", "TSLA">>

\* symbol.charCodeAt(0)
CharCodeAt0(symbol) ==
  LET c == SubSeq(symbol, 1, 1)
  IN CASE c = "C" -> 67 [] c = "F" -> 70 [] c = "G" -> 71 [] c = "I" -> 73
       [] c = "N" -> 78 [] c = "S" -> 83 [] c = "T" -> 84 [] c = "W" -> 87

\* STOCK_TICKERS.map((symbol, index) => ...): the index of a ticker.
IndexOf(symbol) ==
  (CHOOSE i \in DOMAIN STOCK_TICKERS : STOCK_TICKERS[i] = symbol) - 1

Reverse(seq) == [i \in 1 .. Len(seq) |-> seq[Len(seq) + 1 - i]]

\* createTimeSeries(symbol, index); close is held in hundredths (the
\* number has two decimals), volume as the integer it is.
CreateTimeSeries(symbol, index) ==
  LET basePrice == 30 + (CharCodeAt0(symbol) % 25) + index
      baseVolume == 250000 + index * 5000
      entries ==
        [k \in 1 .. MockSeriesLength |->
           [date |-> MockDate(k - 1),
            close |-> basePrice * 100 + (k - 1) * 125,
            volume |-> baseVolume + (k - 1) * 12500]]
  IN Reverse(entries)

\* timeSeriesDailyBySymbol[symbol]
GetMockDailySeries(symbol) == CreateTimeSeries(symbol, IndexOf(symbol))

\* process.env values as ENV holds them: the key trimmed ('' when it is
\* no string), the flag true for the text 'true' alone.
EnvOf(rawApiKey, rawUseMocks) ==
  [alphaVantageApiKey |->
     IF rawApiKey.type = "string" THEN Trim(rawApiKey.val) ELSE "",
   useMocks |-> rawUseMocks = JString("true")]

\* Faulty variant: only the flag turns the mocks on.
ShouldUseMocks_FlagOnly(env) == env.useMocks

\* shouldUseMocks()
ShouldUseMocks(env) == env.useMocks \/ Len(env.alphaVantageApiKey) = 0

\* What the fetcher of a query did: returned data, or threw.
FetcherReturned(data) == [ok |-> TRUE, data |-> data]
FetcherThrew == [ok |-> FALSE, data |-> <<>>]

\* withMockFallback(symbol, fetcher, mockProvider), fetched being what the
\* fetcher does when it is called and mock what mockProvider returns;
\* fetches counts the calls of the fetcher.
WithMockFallback(useMocks, fetched, mock) ==
  IF useMocks THEN [data |-> mock, source |-> "mock", fetches |-> 0]
  ELSE IF fetched.ok THEN [data |-> fetched.data, source |-> "api", fetches |-> 1]
  ELSE [data |-> mock, source |-> "mock", fetches |-> 1]

\* The daily-series query function, fetched being what
\* getDailySeriesFromApi does.
DailySeriesQuery(symbol, useMocks, fetched) ==
  WithMockFallback(useMocks,
                   IF fetched.ok THEN FetcherReturned(fetched.points) ELSE FetcherThrew,
                   GetMockDailySeries(symbol))

\* -------------------------------------------------------------- SpecDaily
InitDaily ==
  /\ InitPure
  /\ arg \in DailyInputs
  /\ ret = <<>>

\* The server normaliser and the browser query function are applied to the
\* payload; in the browser the request itself may also fail.
NormalizeDaily ==
  /\ ret = <<>>
  /\ \E symbol \in SUPPORTED_TICKERS, useMocks \in BOOLEAN, fetchOk \in BOOLEAN :
       ret' = <<[server |-> DailySeriesOf(symbol, arg),
                 browser |->
                   DailySeriesQuery(symbol, useMocks,
                     IF fetchOk THEN ParseTimeSeriesDaily(arg)
                     ELSE SeriesThrew("AlphaVantage request failed"))]>>
  /\ UNCHANGED <<nodeEnv, now, ticks, store, calls, last, procVars, arg>>

NextDaily == NormalizeDaily

SpecDaily == InitDaily /\ [][NextDaily]_vars

\* ------------------------------------------- SpecOverview: normalisation
JNull == [type |-> "null", val |-> ""]

OverviewFields ==
  {"AssetType", "Name", "Description", "Exchange", "Sector", "Industry",
   "MarketCapitalization"}

GoodOverviewObject ==
  [f \in OverviewFields \cup {"Symbol"} |->
     CASE f = "Symbol" -> JString("TSLA")
       [] f = "AssetType" -> JString("Common Stock")
       [] f = "Name" -> JString("Tesla Inc")
       [] f = "Description" -> JString("Tesla designs electric vehicles.")
       [] f = "Exchange" -> JString("  NASDAQ ")
       [] f = "Sector" -> JString("Technology")
       [] f = "Industry" -> JString("Auto Manufacturers")
       [] f = "MarketCapitalization" -> JString("1,250")]

\* What an OVERVIEW field can hold instead: nothing, the empty string,
\* blanks, text that is no number, a JSON null.
OverviewFaults == {JUndefined, JString(""), JString("   "), JString("N/A"), JNull}

\* The valid object with at most two of its fields at fault.
OverviewInputs ==
  {[GoodOverviewObject EXCEPT ![f] = v, ![g] = w] :
     f \in OverviewFields, g \in OverviewFields,
     v \in OverviewFaults, w \in OverviewFaults}
    \cup {GoodOverviewObject, [GoodOverviewObject EXCEPT !["Symbol"] = JUndefined]}

\* parseNullableString(value)
parseNullableString(value) ==
  IF value.type # "string" THEN JNull
  ELSE LET trimmed == Trim(value.val)
       IN IF trimmed = "" THEN JNull ELSE JString(trimmed)

OverviewReturned(overview) == [ok |-> TRUE, overview |-> overview, message |-> ""]
OverviewThrew(message) ==
  [ok |-> FALSE, overview |-> [symbol |-> ""], message |-> message]

\* The body of getCompanyOverviewInternal after fetchAlphaVantage has
\* returned the payload (an object: the sentinel tests have read it).
OverviewOf(symbol, data) ==
  OverviewReturned(
    [symbol |-> symbol,
     assetType |-> parseNullableString(data["AssetType"]),
     name |-> parseNullableString(data["Name"]),
     description |-> parseNullableString(data["Description"]),
     exchange |-> parseNullableString(data["Exchange"]),
     sector |-> parseNullableString(data["Sector"]),
     industry |-> parseNullableString(data["Industry"]),
     marketCapitalization |-> parseInteger(data["MarketCapitalization"])])

\* z.string().optional(): a string, or nothing.
IsOptionalString(value) == value.type \in {"string", "undefined"}

\* parseCompanyOverview(data) of the browser: both schemas accept the
\* object when Symbol is a string and every other field a string or
\* missing, and the fields are passed on as they are.
ParseCompanyOverview(data) ==
  IF data["Symbol"].type # "string"
       \/ \E f \in OverviewFields : ~IsOptionalString(data[f])
  THEN OverviewThrew("ZodError")
  ELSE OverviewReturned(
         [symbol |-> data["Symbol"].val,
          assetType |-> data["AssetType"],
          name |-> data["Name"],
          description |-> data["Description"],
          exchange |-> data["Exchange"],
          sector |-> data["Sector"],
          industry |-> data["Industry"],
          marketCapitalization |-> data["MarketCapitalization"]])

InitOverview ==
  /\ InitPure
  /\ arg \in OverviewInputs
  /\ ret = <<>>

NormalizeOverview ==
  /\ ret = <<>>
  /\ \E symbol \in SUPPORTED_TICKERS :
       ret' = <<[server |-> OverviewOf(symbol, arg),
                 browser |-> ParseCompanyOverview(arg)]>>
  /\ UNCHANGED <<nodeEnv, now, ticks, store, calls, last, procVars, arg>>

NextOverview == NormalizeOverview

SpecOverview == InitOverview /\ [][NextOverview]_vars

\* ------------------------------------------------ SpecPage: the two pages
\* The tickers of the home page: the head of the list, in list order.
MaxTickers == 2

TickerList ==
  <<"CRWV", "NBIS", "WULF", "WYFI", "CRDO", "CXDO", "GEV", "SSSS", "FLEX",
    "CCOI", "GD", "CORZ", "IREN", "CIFR", "TSLA">>

HomeTickers == SubSeq(TickerList, 1, MaxTickers)

\* The lower case of a letter; any other character is left as it is.
LowerChar(c) ==
  CASE c = "A" -> "a" [] c = "B" -> "b" [] c = "C" -> "c" [] c = "D" -> "d"
    [] c = "E" -> "e" [] c = "F" -> "f" [] c = "G" -> "g" [] c = "H" -> "h"
    [] c = "I" -> "i" [] c = "J" -> "j" [] c = "K" -> "k" [] c = "L" -> "l"
    [] c = "M" -> "m" [] c = "N" -> "n" [] c = "O" -> "o" [] c = "P" -> "p"
    [] c = "Q" -> "q" [] c = "R" -> "r" [] c = "S" -> "s" [] c = "T" -> "t"
    [] c = "U" -> "u" [] c = "V" -> "v" [] c = "W" -> "w" [] c = "X" -> "x"
    [] c = "Y" -> "y" [] c = "Z" -> "z" [] OTHER -> c

\* s.toLowerCase().includes(part), part being in lower case: at some
\* place of s the letters of part follow one another, in either case.
LowerIncludes(s, part) ==
  \E i \in 1 .. Len(s) - Len(part) + 1 :
    \A k \in 1 .. Len(part) :
      LowerChar(SubSeq(s, i + k - 1, i + k - 1)) = SubSeq(part, k, k)

\* Faulty variant: no message names a premium endpoint.
IsPremiumEndpointMessage_Never(message) == FALSE

IsPremiumEndpointMessage(message) ==
  LowerIncludes(message, "premium endpoint")

\* payload["Time Series (Daily)"] and the OVERVIEW object of a body: the
\* valid bodies hold two good days (later day first) and the good overview,
\* every other body holds neither.
SeriesJson(name) ==
  IF name = "DailyBody"
  THEN DailyPayload(TRUE, <<<<MockDate(1), GoodDay>>, <<MockDate(0), GoodDay>>>>)
  ELSE DailyPayload(FALSE, <<>>)

OverviewJson(name) ==
  IF name = "OverviewBody" THEN GoodOverviewObject
  ELSE [f \in OverviewFields \cup {"Symbol"} |-> JUndefined]

\* The fetches a page starts, by their place in the array handed to
\* Promise.allSettled: quote, daily series and overview of the stock page;
\* one quote per ticker of the home page.
Fetchers ==
  IF arg.page = "stock" THEN 1 .. 3 ELSE 1 .. Len(HomeTickers)

\* The upper case of a letter; any other character is left as it is.
UpperChar(c) ==
  CASE c = "a" -> "A" [] c = "b" -> "B" [] c = "c" -> "C" [] c = "d" -> "D"
    [] c = "e" -> "E" [] c = "f" -> "F" [] c = "g" -> "G" [] c = "h" -> "H"
    [] c = "i" -> "I" [] c = "j" -> "J" [] c = "k" -> "K" [] c = "l" -> "L"
    [] c = "m" -> "M" [] c = "n" -> "N" [] c = "o" -> "O" [] c = "p" -> "P"
    [] c = "q" -> "Q" [] c = "r" -> "R" [] c = "s" -> "S" [] c = "t" -> "T"
    [] c = "u" -> "U" [] c = "v" -> "V" [] c = "w" -> "W" [] c = "x" -> "X"
    [] c = "y" -> "Y" [] c = "z" -> "Z" [] OTHER -> c

\* s.toUpperCase() for a text of at most five characters.
ToUpperCase(s) ==
  LET u(i) == IF i <= Len(s) THEN UpperChar(SubSeq(s, i, i)) ELSE ""
  IN u(1) \o u(2) \o u(3) \o u(4) \o u(5)

\* The symbol parameter of the route /stocks/[symbol] ("" when it is
\* missing).
RouteSymbols == {"TSLA", "tsla", "MSFT", "msft", ""}

\* Faulty variant: every symbol is taken for a supported one.
Includes_Any(list, symbol) == TRUE

\* list.includes(symbol)
Includes(list, symbol) == \E i \in DOMAIN list : list[i] = symbol

\* StockDetailPage up to the call of fetchStockData: the symbol it goes on
\* with, and whether it ends in notFound() instead.
SymbolParam == ToUpperCase(arg.symbol)
EndsNotFound == arg.page = "stock" /\ ~Includes(TickerList, SymbolParam)

SymbolOf(p) == IF arg.page = "stock" THEN SymbolParam ELSE HomeTickers[p]

\* The first request of a fetch.
FirstRequest(p) ==
  IF arg.page = "home" \/ p = 1 THEN QuoteParams(SymbolOf(p))
  ELSE IF p = 2 THEN DailyParams("TIME_SERIES_DAILY", SymbolOf(p))
  ELSE OverviewParams(SymbolOf(p))

\* The requests the pages make, and PagePaths the files of every request
\* a route symbol can be put in, supported or not.
PageRequests ==
  Requests \cup {QuoteParams(HomeTickers[i]) : i \in DOMAIN HomeTickers}

RouteRequests ==
  UNION {{QuoteParams(ToUpperCase(s)), OverviewParams(ToUpperCase(s)),
          DailyParams("TIME_SERIES_DAILY", ToUpperCase(s)),
          DailyParams("TIME_SERIES_DAILY_ADJUSTED", ToUpperCase(s))} :
           s \in RouteSymbols}

PagePaths == {GetCacheFilePath(CacheKey(r)) : r \in PageRequests \cup RouteRequests}

PageEmptyStore == [f \in PagePaths |-> NoFile]

\* The directory as an earlier run of the pages left it, each file written
\* at instant 0: nothing; the valid body of every request; or those with
\* the premium notice for TIME_SERIES_DAILY and an OVERVIEW file that has
\* lost its timestamp.
WarmStore ==
  [f \in PagePaths |->
     IF \E q \in PageRequests : GetCacheFilePath(CacheKey(q)) = f
     THEN LET r == CHOOSE q \in PageRequests : GetCacheFilePath(CacheKey(q)) = f
          IN Container(0, ValidBody(r))
     ELSE NoFile]

PageStores ==
  {PageEmptyStore, WarmStore,
   [WarmStore EXCEPT
      ![GetCacheFilePath(CacheKey(DailyParams("TIME_SERIES_DAILY", "TSLA")))] =
        Container(0, "InformationBody"),
      ![GetCacheFilePath(CacheKey(OverviewParams("TSLA")))] =
        NoTimestamp("OverviewBody")]}

InitPage ==
  /\ nodeEnv \in {"development", "production"}
  /\ now = 0
  /\ ticks = 0
  /\ store \in PageStores
  /\ calls = 0
  /\ last = NoCall
  /\ arg \in {[page |-> "stock", symbol |-> s] : s \in RouteSymbols}
               \cup {[page |-> "home", symbol |-> ""]}
  /\ ret = <<>>
  /\ pc = [p \in Fetchers |-> "idle"]
  /\ req = [p \in Fetchers |-> <<>>]
  /\ cached = [p \in Fetchers |-> Null]
  /\ payload = [p \in Fetchers |-> "EmptyBody"]
  /\ fetchedAt = [p \in Fetchers |-> 0]
  /\ result = [p \in Fetchers |-> NoResult]
  /\ http = [p \in Fetchers |-> 0]
  /\ wrote = [p \in Fetchers |-> 0]
  /\ startedEmpty = [p \in Fetchers |-> FALSE]
  /\ prior = [p \in Fetchers |-> NoPrior]
  /\ firstTry = NoResult

\* Promise.allSettled([...]): every fetch of the array is called, and each
\* runs to the first await of fetchAlphaVantage.
StartPage ==
  /\ ~EndsNotFound
  /\ \A p \in Fetchers : pc[p] = "idle"
  /\ calls' = calls + Cardinality(Fetchers)
  /\ req' = [p \in Fetchers |-> FirstRequest(p)]
  /\ pc' = [p \in Fetchers |-> IF DISK_CACHE_ENABLED THEN "readFile" ELSE "fetch"]
  /\ startedEmpty' = [p \in Fetchers |-> store = PageEmptyStore]
  /\ UNCHANGED <<nodeEnv, now, ticks, store, last, cached, payload, fetchedAt,
                 result, http, wrote, prior, firstTry, keyVars>>

\* Faulty variant: any failure of the TIME_SERIES_DAILY call is answered
\* with a second request.
FallsBack_AnyFailure(p) ==
  /\ pc[p] = "done"
  /\ ParamValue(req[p], "function") = "TIME_SERIES_DAILY"
  /\ result[p].status = "rejected"

\* The catch clause of fetchDailySeriesPayload will ask for the adjusted
\* series: the TIME_SERIES_DAILY call of p has ended with an
\* AlphaVantageError whose message names a premium endpoint.
FallsBack(p) ==
  /\ pc[p] = "done"
  /\ ParamValue(req[p], "function") = "TIME_SERIES_DAILY"
  /\ result[p].status = "rejected"
  /\ result[p].error = "AlphaVantageError"
  /\ IsPremiumEndpointMessage(result[p].message)

\* The catch clause of fetchDailySeriesPayload calls fetchAlphaVantage for
\* TIME_SERIES_DAILY_ADJUSTED.
Fallback(p) ==
  /\ FallsBack(p)
  /\ firstTry' = result[p]
  /\ calls' = calls + 1
  /\ req' = [req EXCEPT ![p] =
       DailyParams("TIME_SERIES_DAILY_ADJUSTED", ParamValue(req[p], "symbol"))]
  /\ pc' = [pc EXCEPT ![p] = IF DISK_CACHE_ENABLED THEN "readFile" ELSE "fetch"]
  /\ cached' = [cached EXCEPT ![p] = Null]
  /\ payload' = [payload EXCEPT ![p] = "EmptyBody"]
  /\ fetchedAt' = [fetchedAt EXCEPT ![p] = 0]
  /\ result' = [result EXCEPT ![p] = NoResult]
  /\ http' = [http EXCEPT ![p] = 0]
  /\ wrote' = [wrote EXCEPT ![p] = 0]
  /\ UNCHANGED <<nodeEnv, now, ticks, store, last, startedEmpty, prior,
                 keyVars>>

\* The promise a fetch of the array settled with: fulfilled with
\* {data, cachedAt}, or rejected with an error.
FulfilledWith(data, cachedAt) ==
  [status |-> "fulfilled", data |-> data, cachedAt |-> cachedAt,
   error |-> "", message |-> ""]
RejectedWith(name, message) ==
  [status |-> "rejected", data |-> JNull, cachedAt |-> JNull,
   error |-> name, message |-> message]

\* getGlobalQuote, getDailySeries and getCompanyOverview from the return
\* of their last fetchAlphaVantage call on.
Outcome(p) ==
  LET r == result[p]
      fn == ParamValue(req[p], "function")
  IN IF r.status = "rejected" THEN RejectedWith(r.error, r.message)
     ELSE IF fn = "GLOBAL_QUOTE" THEN FulfilledWith(r.quote, r.cachedAt)
     ELSE IF fn = "OVERVIEW"
     THEN FulfilledWith(OverviewOf(SymbolOf(p), OverviewJson(r.data)).overview,
                        r.cachedAt)
     ELSE LET series == DailySeriesOf(SymbolOf(p), SeriesJson(r.data))
          IN IF series.ok THEN FulfilledWith(series.points, r.cachedAt)
             ELSE RejectedWith("AlphaVantageError", series.message)

\* result.reason of a rejected promise.
Reason(o) == [name |-> o.error, message |-> o.message]

\* extractErrorMessage(error): every error of the model is an Error.
ExtractErrorMessage(reason) == reason.message

\* result.status === "fulfilled" ? result.value : null, then ?.data
ValueOrNull(o) == IF o.status = "fulfilled" THEN o.data ELSE JNull

\* Faulty variant: the three are awaited as one (Promise.all in a try
\* block), so that one failure empties the whole result.
FetchStockData_AllOrNothing(q, s, o) ==
  LET failed == \/ q.status = "rejected"
                \/ s.status = "rejected"
                \/ o.status = "rejected"
      one == IF q.status = "rejected" THEN q
             ELSE IF s.status = "rejected" THEN s ELSE o
  IN [quote |-> IF failed THEN JNull ELSE q.data,
      quoteCachedAt |-> IF failed THEN JNull ELSE q.cachedAt,
      series |-> IF failed THEN <<>> ELSE s.data,
      seriesCachedAt |-> IF failed THEN JNull ELSE s.cachedAt,
      overview |-> IF failed THEN JNull ELSE o.data,
      overviewCachedAt |-> IF failed THEN JNull ELSE o.cachedAt,
      overviewError |-> IF o.status = "rejected" THEN Reason(o) ELSE JNull,
      error |-> IF failed THEN Reason(one) ELSE JNull]

\* fetchStockData from the settlement of the three promises on.
FetchStockData(q, s, o) ==
  [quote |-> ValueOrNull(q),
   quoteCachedAt |-> IF q.status = "fulfilled" THEN q.cachedAt ELSE JNull,
   series |-> IF s.status = "fulfilled" THEN s.data ELSE <<>>,
   seriesCachedAt |-> IF s.status = "fulfilled" THEN s.cachedAt ELSE JNull,
   overview |-> ValueOrNull(o),
   overviewCachedAt |-> IF o.status = "fulfilled" THEN o.cachedAt ELSE JNull,
   overviewError |-> IF o.status = "rejected" THEN Reason(o) ELSE JNull,
   error |-> IF q.status = "rejected" THEN Reason(q)
             ELSE IF s.status = "rejected" THEN Reason(s) ELSE JNull]

\* Faulty variant: a card never carries an error.
Card_NoError(symbol, o) ==
  [symbol |-> symbol, quote |-> o.data, cachedAt |-> o.cachedAt, error |-> JNull]

\* The card loadQuotes makes of a settled promise.
Card(symbol, o) ==
  IF o.status = "fulfilled"
  THEN [symbol |-> symbol, quote |-> o.data, cachedAt |-> o.cachedAt,
        error |-> JNull]
  ELSE [symbol |-> symbol, quote |-> JNull, cachedAt |-> JNull,
        error |-> JString(ExtractErrorMessage(Reason(o)))]

\* loadQuotes from the settlement of the promises on.
LoadQuotes(outcomes) ==
  [i \in DOMAIN outcomes |-> Card(HomeTickers[i], outcomes[i])]

\* notFound() of next/navigation, which throws: the page function ends
\* there, ret holding the two words of what was thrown where a page that
\* returns leaves its one result.
NotFound ==
  /\ EndsNotFound
  /\ ret = <<>>
  /\ ret' = <<"throw", "NEXT_NOT_FOUND">>
  /\ UNCHANGED <<nodeEnv, now, ticks, store, calls, last, procVars, arg>>

\* Every promise of the array has settled: the call has ended and no
\* second request is due.
Settled(p) == pc[p] = "done" /\ ~FallsBack(p)

\* Promise.allSettled resolves and the page function runs to its return.
Resolve ==
  /\ ret = <<>>
  /\ \A p \in Fetchers : Settled(p)
  /\ ret' = <<IF arg.page = "stock"
              THEN FetchStockData(Outcome(1), Outcome(2), Outcome(3))
              ELSE LoadQuotes([p \in Fetchers |-> Outcome(p)])>>
  /\ UNCHANGED <<nodeEnv, now, ticks, store, calls, last, procVars, arg>>

NextPage ==
  \/ StartPage
  \/ \E p \in Fetchers : ReadFile(p)
  \/ \E p \in Fetchers : Rm(p)
  \/ \E p \in Fetchers : Fetch(p)
  \/ \E p \in Fetchers : Mkdir(p)
  \/ \E p \in Fetchers : WriteFile(p)
  \/ \E p \in Fetchers : Fallback(p)
  \/ Resolve
  \/ NotFound

SpecPage == InitPage /\ [][NextPage]_vars

\* ------------------------------------------- SpecMock: the browser queries
\* sectors, industries (0-based index, as in the code)
Sectors == <<"Technology", "Energy", "Finance", "Healthcare">>
Industries == <<"Software", "Blockchain", "Semiconductors", "Biotech">>

\* sector.toLowerCase() of the four sectors
LowerSector(sector) ==
  CASE sector = "Technology" -> "technology" [] sector = "Energy" -> "energy"
    [] sector = "Finance" -> "finance" [] sector = "Healthcare" -> "healthcare"

\* createCompanyOverview(symbol, index), which companyOverviewSchema
\* passes unchanged; String(1_000_000_000 + index * 250_000_000) is
\* written from its millions.
CreateCompanyOverview(symbol, index) ==
  LET sector == Sectors[(index % Len(Sectors)) + 1]
  IN [symbol |-> symbol,
      assetType |-> JString("Common Stock"),
      name |-> JString(symbol \o " Holdings"),
      description |->
        JString(symbol \o " is a mock company focused on "
                  \o LowerSector(sector) \o " solutions."),
      exchange |-> JString(IF index % 2 = 0 THEN "NASDAQ" ELSE "NYSE"),
      sector |-> JString(sector),
      industry |->
        IF index % 4 = 0 THEN JUndefined
        ELSE JString(Industries[(index % Len(Industries)) + 1]),
      marketCapitalization |-> JString(ToString(1000 + index * 250) \o "000000")]

\* companyOverviewBySymbol[symbol]
GetMockOverview(symbol) == CreateCompanyOverview(symbol, IndexOf(symbol))

\* The overview query function, fetched being what
\* getCompanyOverviewFromApi does.
CompanyOverviewQuery(symbol, useMocks, fetched) ==
  WithMockFallback(useMocks,
                   IF fetched.ok THEN FetcherReturned(fetched.overview) ELSE FetcherThrew,
                   GetMockOverview(symbol))

\* VITE_ALPHAVANTAGE_API_KEY and VITE_USE_MOCKS as the build can find them.
RawApiKeys ==
  {JUndefined, JString(""), JString("   "), JString("demo"), JString(" demo ")}
RawUseMocks ==
  {JUndefined, JString("true"), JString("false"), JString("")}

MockTickers == {STOCK_TICKERS[i] : i \in DOMAIN STOCK_TICKERS}

InitMock ==
  /\ InitPure
  /\ arg \in [rawApiKey : RawApiKeys, rawUseMocks : RawUseMocks,
               symbol : MockTickers]
  /\ ret = <<>>

\* The sentinel test of fetchWithRateLimitGuard: a body with one of the
\* three keys throws, with the first of Note, Information, Error Message
\* that is a string as message, or a fixed text when none is.
IsPresent(field) == field.type # "undefined"

GuardThrew(message) == [ok |-> FALSE, message |-> message]
GuardReturned == [ok |-> TRUE, message |-> ""]

RateLimitGuard(json) ==
  IF IsPresent(json.Note) \/ IsPresent(json.Information)
       \/ IsPresent(json.ErrorMessage)
  THEN GuardThrew(
         IF json.Note.type = "string" THEN json.Note.val
         ELSE IF json.Information.type = "string" THEN json.Information.val
         ELSE IF json.ErrorMessage.type = "string" THEN json.ErrorMessage.val
         ELSE "AlphaVantage rate limit or error")
  ELSE GuardReturned

\* fetchWithRateLimitGuard(url), response being what fetch(url) does.
FetchWithRateLimitGuard(response) ==
  CASE response.kind = "network" -> GuardThrew("fetch failed")
    [] response.kind = "500" ->
         GuardThrew("AlphaVantage request failed: 500 Internal Server Error")
    [] response.kind = "ok" -> RateLimitGuard(Json(response.body))

\* Faulty variant: a body the schema refuses is handed on as it is.
GetCompanyOverviewFromApi_Unparsed(response) ==
  LET guarded == FetchWithRateLimitGuard(response)
  IN IF ~guarded.ok THEN OverviewThrew(guarded.message)
     ELSE OverviewReturned(OverviewJson(response.body))

\* getCompanyOverviewFromApi(symbol)
GetCompanyOverviewFromApi(response) ==
  LET guarded == FetchWithRateLimitGuard(response)
  IN IF ~guarded.ok THEN OverviewThrew(guarded.message)
     ELSE ParseCompanyOverview(OverviewJson(response.body))

\* getDailySeriesFromApi(symbol)
GetDailySeriesFromApi(response) ==
  LET guarded == FetchWithRateLimitGuard(response)
  IN IF ~guarded.ok THEN SeriesThrew(guarded.message)
     ELSE ParseTimeSeriesDaily(SeriesJson(response.body))

\* companyOverviewQueryOptions(symbol).queryFn(), the upstream answering
\* the OVERVIEW request in one of its ways.
OverviewQueryFn ==
  /\ ret = <<>>
  /\ \E response \in ResponsesTo(OverviewParams(arg.symbol)) :
       ret' = <<[query |-> "companyOverview", response |-> response] @@
                CompanyOverviewQuery(arg.symbol,
                  ShouldUseMocks(EnvOf(arg.rawApiKey, arg.rawUseMocks)),
                  GetCompanyOverviewFromApi(response))>>
  /\ UNCHANGED <<nodeEnv, now, ticks, store, calls, last, procVars, arg>>

\* dailySeriesQueryOptions(symbol).queryFn(), the upstream answering the
\* TIME_SERIES_DAILY request in one of its ways.
DailySeriesQueryFn ==
  /\ ret = <<>>
  /\ \E response \in ResponsesTo(DailyParams("TIME_SERIES_DAILY", arg.symbol)) :
       ret' = <<[query |-> "dailySeries", response |-> response] @@
                DailySeriesQuery(arg.symbol,
                  ShouldUseMocks(EnvOf(arg.rawApiKey, arg.rawUseMocks)),
                  GetDailySeriesFromApi(response))>>
  /\ UNCHANGED <<nodeEnv, now, ticks, store, calls, last, procVars, arg>>

NextMock == OverviewQueryFn \/ DailySeriesQueryFn

SpecMock == InitMock /\ [][NextMock]_vars

\* --------------------------------------------- SpecSentinel: the 200 body
\* What a sentinel field of a 2xx body can hold: nothing, the empty text,
\* a message, or a value that is no string.
SentinelValues(message) == {JUndefined, JString(""), JString(message), JNumber("1")}

SentinelInputs ==
  {Body(note, err, info, FALSE, NoQuoteObject) :
     note \in SentinelValues(RateLimitNote),
     err \in SentinelValues(InvalidCallMessage),
     info \in SentinelValues(PremiumInformation)}

InitSentinel ==
  /\ InitPure
  /\ arg \in SentinelInputs
  /\ ret = <<>>

\* The sentinel tests of fetchAlphaVantage (server) and of
\* fetchWithRateLimitGuard (browser) on the body.
CheckSentinels ==
  /\ ret = <<>>
  /\ ret' = <<[server |->
                 IF SentinelMessage(arg) = "" THEN GuardReturned
                 ELSE GuardThrew(SentinelMessage(arg)),
               browser |-> RateLimitGuard(arg)]>>
  /\ UNCHANGED <<nodeEnv, now, ticks, store, calls, last, procVars, arg>>

NextSentinel == CheckSentinels

SpecSentinel == InitSentinel /\ [][NextSentinel]_vars

\* ----------------------------- SpecLoader: the route loader in the browser
\* The queries of the stock route, by the first element of their queryKey.
Queries == {"companyOverview", "dailySeries"}

\* The key of the persister in localStorage.
PersisterKey == "stock-app-query-cache"

\* What localStorage can hold under the key when the page is opened: the
\* dehydrated client with the data of none, one or both of the queries of
\* the ticker, not older than maxAge.
PersistedClients == {{}, {"companyOverview"}, Queries}

\* localStorage without the key.
Removed == {"removed"}

LoaderTickers == {"TSLA", "CRWV"}

\* The positions of SpecLoader: restorePromise ("pending", "resolved",
\* "rejected", or "none" without a window), queryClientReady ("pending",
\* "fulfilled", "rejected"), the loader ("idle", "awaiting", "returned",
\* "threw") and each query ("none", "cached", "fetching", "settled").
InitLoader ==
  /\ nodeEnv = "development"
  /\ now = 0
  /\ ticks = 0
  /\ calls = 0
  /\ last = NoCall
  /\ arg \in [symbol : LoaderTickers, rawApiKey : RawApiKeys,
               rawUseMocks : RawUseMocks, hasWindow : BOOLEAN,
               persisted : PersistedClients]
  /\ store = [k \in {PersisterKey} |-> arg.persisted]
  /\ pc = [restore |-> IF arg.hasWindow THEN "pending" ELSE "none",
           ready |-> IF arg.hasWindow THEN "pending" ELSE "fulfilled",
           loader |-> "idle",
           companyOverview |-> "none",
           dailySeries |-> "none"]
  /\ cached = [q \in Queries |-> FALSE]
  /\ http = [q \in Queries |-> 0]
  /\ result = [q \in Queries |-> <<>>]
  /\ req = <<>>
  /\ payload = <<>>
  /\ fetchedAt = <<>>
  /\ wrote = <<>>
  /\ startedEmpty = <<>>
  /\ prior = <<>>
  /\ firstTry = NoResult
  /\ ret = <<>>

\* restorePromise resolves: the persisted queries are in the client, and
\* .then(() => undefined) fulfils queryClientReady.
RestoreResolves ==
  /\ pc.restore = "pending"
  /\ pc' = [pc EXCEPT !.restore = "resolved", !.ready = "fulfilled"]
  /\ cached' = [q \in Queries |-> q \in store[PersisterKey]]
  /\ UNCHANGED <<nodeEnv, now, ticks, store, calls, last, req, payload,
                 fetchedAt, result, http, wrote, startedEmpty, prior,
                 firstTry, keyVars>>

\* restorePromise rejects: the catch handler warns and calls
\* persister.removeClient.
RestoreRejects ==
  /\ pc.restore = "pending"
  /\ pc' = [pc EXCEPT !.restore = "rejected"]
  /\ UNCHANGED <<nodeEnv, now, ticks, store, calls, last, req, cached,
                 payload, fetchedAt, result, http, wrote, startedEmpty,
                 prior, firstTry, keyVars>>

\* persister.removeClient?.() ends: the key is removed and
\* queryClientReady is fulfilled, or it throws and queryClientReady is
\* rejected.
RemoveClient ==
  /\ pc.restore = "rejected"
  /\ pc.ready = "pending"
  /\ \E removeOk \in BOOLEAN :
       IF removeOk
       THEN /\ store' = [store EXCEPT ![PersisterKey] = Removed]
            /\ pc' = [pc EXCEPT !.ready = "fulfilled"]
       ELSE /\ pc' = [pc EXCEPT !.ready = "rejected"]
            /\ UNCHANGED store
  /\ UNCHANGED <<nodeEnv, now, ticks, calls, last, req, cached, payload,
                 fetchedAt, result, http, wrote, startedEmpty, prior,
                 firstTry, keyVars>>

\* The router calls Route.loader, which runs to await queryClientReady.
Navigate ==
  /\ pc.loader = "idle"
  /\ pc' = [pc EXCEPT !.loader = "awaiting"]
  /\ calls' = calls + 1
  /\ UNCHANGED <<nodeEnv, now, ticks, store, last, req, cached, payload,
                 fetchedAt, result, http, wrote, startedEmpty, prior,
                 firstTry, keyVars>>

\* Faulty variant: the loader does not wait for queryClientReady.
AwaitReady_Skipped(ready) == "fulfilled"

\* await queryClientReady: what the loader sees of the promise.
AwaitReady(ready) == ready

\* queryClient.ensureQueryData(options): the data of the client when it
\* has some; else queryFn is called, which takes the mock at once or sends
\* the request.
EnsureQueryData(q) ==
  IF cached[q] THEN "cached"
  ELSE IF ShouldUseMocks(EnvOf(arg.rawApiKey, arg.rawUseMocks)) THEN "settled"
  ELSE "fetching"

\* What queryFn resolves with, fetched being what its fetcher did.
QueryFn(q, fetched) ==
  IF q = "companyOverview"
  THEN CompanyOverviewQuery(arg.symbol,
         ShouldUseMocks(EnvOf(arg.rawApiKey, arg.rawUseMocks)),
         GetCompanyOverviewFromApi(fetched))
  ELSE DailySeriesQuery(arg.symbol,
         ShouldUseMocks(EnvOf(arg.rawApiKey, arg.rawUseMocks)),
         GetDailySeriesFromApi(fetched))

NoResponse == [kind |-> "network", body |-> "EmptyBody"]

\* queryClientReady is fulfilled: the loader starts both ensureQueryData
\* calls, awaits neither, and returns {symbol}.
LoaderResumes ==
  /\ pc.loader = "awaiting"
  /\ AwaitReady(pc.ready) = "fulfilled"
  /\ pc' = [pc EXCEPT !.loader = "returned",
                      !.companyOverview = EnsureQueryData("companyOverview"),
                      !.dailySeries = EnsureQueryData("dailySeries")]
  /\ http' = [q \in Queries |->
               IF EnsureQueryData(q) = "fetching" THEN http[q] + 1 ELSE http[q]]
  /\ result' = [q \in Queries |->
                 IF EnsureQueryData(q) = "settled" THEN <<QueryFn(q, NoResponse)>>
                 ELSE result[q]]
  /\ ret' = <<[symbol |-> arg.symbol]>>
  /\ UNCHANGED <<nodeEnv, now, ticks, store, calls, last, req, cached,
                 payload, fetchedAt, wrote, startedEmpty, prior, firstTry,
                 arg>>

\* queryClientReady is rejected: the await throws and the loader fails.
LoaderThrows ==
  /\ pc.loader = "awaiting"
  /\ AwaitReady(pc.ready) = "rejected"
  /\ pc' = [pc EXCEPT !.loader = "threw"]
  /\ ret' = <<"throw", "removeClient">>
  /\ UNCHANGED <<nodeEnv, now, ticks, store, calls, last, req, cached,
                 payload, fetchedAt, result, http, wrote, startedEmpty,
                 prior, firstTry, arg>>

\* The request of a query settles and its queryFn resolves, with the data
\* of the API or with the mock.
QuerySettles(q) ==
  /\ pc[q] = "fetching"
  /\ \E response \in ResponsesTo(IF q = "companyOverview"
                                  THEN OverviewParams(arg.symbol)
                                  ELSE DailyParams("TIME_SERIES_DAILY", arg.symbol)) :
       result' = [result EXCEPT ![q] = <<QueryFn(q, response)>>]
  /\ pc' = [pc EXCEPT ![q] = "settled"]
  /\ UNCHANGED <<nodeEnv, now, ticks, store, calls, last, req, cached,
                 payload, fetchedAt, http, wrote, startedEmpty, prior,
                 firstTry, keyVars>>

NextLoader ==
  \/ RestoreResolves
  \/ RestoreRejects
  \/ RemoveClient
  \/ Navigate
  \/ LoaderResumes
  \/ LoaderThrows
  \/ \E q \in Queries : QuerySettles(q)

SpecLoader == InitLoader /\ [][NextLoader]_vars

\* ================================================================ claims
\* ------------------------------------------------------------ SpecCache
\* The step is a readFromDiskCache of the key the call before it was about.
ReadsAfter(op) ==
  /\ last.op = op
  /\ last'.op = "read"
  /\ last'.key = last.key
  /\ calls' = calls + 1

\* The call that has just returned was a readFromDiskCache whose readFile
\* was carried out and did not fail.
ReadMetFile == last.op = "read" /\ DISK_CACHE_ENABLED /\ last.readOk

EntryShown ==
  \/ last.op = "write" /\ DISK_CACHE_ENABLED /\ ~last.threw
  \/ last.op = "read" /\ last.out.hit
EntryWrittenAt == IF last.op = "write" THEN last.at ELSE last.out.timestamp
EntryValue == IF last.op = "write" THEN last.value ELSE last.out.data

\* C2 as stated: an entry written at t is returned by readFromDiskCache
\* with TTL T at every read time up to t+T (valid exactly while
\* now - timestamp <= T) and is reported absent at every read time from
\* t+T+1 on.
C2_TtlExpiryAlways ==
  [][(EntryShown /\ (ReadsAfter("write") \/ ReadsAfter("read")))
       => IF last'.at - EntryWrittenAt <= last'.ttl
          THEN last'.out = DiskCacheHit(EntryValue, EntryWrittenAt)
          ELSE last'.out = Null]_vars

\* C2 amended: an entry written at t is returned by every readFromDiskCache
\* with TTL T whose readFile does not fail at every read time up to t+T, and
\* is reported absent by every read at every time from t+T+1 on.
C2_TtlExpiry ==
  [][(EntryShown /\ (ReadsAfter("write") \/ ReadsAfter("read")))
       => IF last'.at - EntryWrittenAt <= last'.ttl
          THEN last'.readOk => last'.out = DiskCacheHit(EntryValue, EntryWrittenAt)
          ELSE last'.out = Null]_vars

\* C2 witness: an entry written after the start was returned by a read
\* exactly TTL later, the TTL being the 24 hours of fetchAlphaVantage.
C2_Witness ==
  /\ last.op = "read"
  /\ last.ttl = DISK_CACHE_TTL_MS
  /\ last.out.hit
  /\ last.out.timestamp > 0
  /\ last.at = last.out.timestamp + DISK_CACHE_TTL_MS

\* What a read found at the path: an entry past its TTL, or a corrupt one.
FoundExpired ==
  /\ ReadMetFile
  /\ last.before.kind = "container"
  /\ last.at - last.before.timestamp > last.ttl
FoundCorrupt == ReadMetFile /\ last.before.kind \in {"garbage", "noTimestamp"}

\* C9 as stated: after a read that finds the stored entry expired or
\* corrupt (JSON that cannot be parsed, or a container without a finite
\* timestamp), the read has returned absent and the file no longer exists.
C9_DeletedWhenExpiredOrCorrupt ==
  (FoundExpired \/ FoundCorrupt)
    => (last.out = Null /\ store[GetCacheFilePath(last.key)] = NoFile)

\* C9 amended: a read that finds the stored entry expired, or finds a
\* container without a finite timestamp, returns absent and, unless fs.rm
\* fails, the file no longer exists; a read that finds JSON that cannot be
\* parsed, or whose fs.rm fails, returns absent and leaves the file as it
\* found it.
C9_DeletedWhenExpiredOrNoTimestamp ==
  (FoundExpired \/ FoundCorrupt)
    => /\ last.out = Null
       /\ store[GetCacheFilePath(last.key)] =
            IF last.before.kind = "garbage" \/ ~last.rmOk
            THEN last.before ELSE NoFile

\* C9 witness: a read found an entry written 24 hours and a millisecond
\* before and removed it.
C9_Witness ==
  /\ FoundExpired
  /\ last.ttl = DISK_CACHE_TTL_MS
  /\ last.rmOk
  /\ store[GetCacheFilePath(last.key)] = NoFile

\* -------------------------------------------------------------- SpecKey
\* C3: two parameter objects with the same (name, value) pairs, inserted in
\* whatever order, get the same cache key and the same cache file.
C3_KeyIgnoresInsertionOrder ==
  (ret # <<>> /\ Entries(arg[1]) = Entries(arg[2]))
    => /\ ret[1] = ret[2]
       /\ GetCacheFilePath(ret[1]) = GetCacheFilePath(ret[2])

\* C3 witness: the keys of {a: "1", b: "2"} and {b: "2", a: "1"} have been
\* computed.
C3_Witness ==
  /\ ret # <<>>
  /\ arg[1] = <<<<"a", "1">>, <<"b", "2">>>>
  /\ arg[2] = <<<<"b", "2">>, <<"a", "1">>>>

\* ------------------------------------------------------------------ Spec
\* The call of p has ended and had a payload in hand: from the cache, or
\* from a 2xx response.
HadPayload(p) == pc[p] = "done" /\ (cached[p].hit \/ wrote[p] = 1)
FromUpstream(p) == pc[p] = "done" /\ wrote[p] = 1

\* C4 as stated: no failure of a cache read or write reaches the caller; a
\* call whose upstream request succeeded ends as it would have ended had
\* the cache write not failed.
C4_CacheFailuresSwallowed ==
  \A p \in Procs :
    FromUpstream(p)
      => result[p] = Settle(req[p], payload[p], ToISOString(fetchedAt[p]))

\* C5 as stated: the cache is written only after a successful upstream
\* fetch; no file ever holds a payload with a non-empty Note, Information
\* or Error Message, and a non-2xx response leads to no write.
C5_NoErrorPayloadCached ==
  /\ \A f \in Paths :
       store[f].kind = "container" => SentinelMessage(Json(store[f].data)) = ""
  /\ \A p \in Procs :
       (pc[p] = "done" /\ result[p].message = HttpErrorMessage) => wrote[p] = 0

\* C6 as stated: whenever the payload of a request, from the network or
\* from the cache, has a non-empty Note, Information or Error Message, the
\* call fails with an AlphaVantageError carrying it and returns no data.
C6_SentinelAlwaysUpstreamError ==
  \A p \in Procs :
    (HadPayload(p) /\ SentinelMessage(Json(payload[p])) # "")
      => result[p] = Rejected("AlphaVantageError", SentinelMessage(Json(payload[p])))

\* C7: when readFromDiskCache returns a valid entry, the call ends at once:
\* it sends no HTTP request, makes no cache write, and what it returns
\* carries the entry's data and, as cachedAt, the entry's own timestamp.
C7_HitSkipsUpstream ==
  \A p \in Procs :
    cached[p].hit
      => /\ pc[p] = "done"
         /\ http[p] = 0
         /\ wrote[p] = 0
         /\ result[p] =
              Settle(req[p], cached[p].data, ToISOString(cached[p].timestamp))

\* C7 witness: a call was answered from an entry written earlier in the
\* run, at an instant other than that of the call.
C7_Witness ==
  \E p \in Procs :
    /\ cached[p].hit
    /\ result[p].status = "fulfilled"
    /\ cached[p].timestamp > 0
    /\ now > cached[p].timestamp

\* C8 as stated: from an empty cache, with the cache enabled, a quote call
\* whose upstream returns a valid GLOBAL_QUOTE body returns the quote with
\* cachedAt the instant of the response, and from then on the file of the
\* quote key holds an entry every read of the next 24 hours returns.
C8_QuoteFromEmptyCache ==
  \A p \in Procs :
    (/\ FromUpstream(p)
     /\ startedEmpty[p]
     /\ DISK_CACHE_ENABLED
     /\ req[p] \in {QuoteParams(sym) : sym \in SUPPORTED_TICKERS}
     /\ payload[p] = "QuoteBody")
      => /\ result[p].status = "fulfilled"
         /\ result[p].quote.symbol = ParamValue(req[p], "symbol")
         /\ result[p].cachedAt = ToISOString(fetchedAt[p])
         /\ now - fetchedAt[p] <= DISK_CACHE_TTL_MS
              => Lookup(store[PathOf(p)], now, DISK_CACHE_TTL_MS) = "hit"

IsWrite == last'.op = "write" /\ calls' = calls + 1

\* C11 as stated: writeToDiskCache(k, v) always leaves the file of k holding
\* v and the instant of this write, whatever was there before; and a read
\* within TTL after it returns v with this write's timestamp.
C11_WriteAlwaysReplaces ==
  [][/\ IsWrite
        => store'[GetCacheFilePath(last'.key)] = Container(last'.at, last'.value)
     /\ (ReadsAfter("write") /\ last'.at - last.at <= last'.ttl)
        => last'.out = DiskCacheHit(last.value, last.at)]_vars

\* C11 amended: with the cache enabled, a writeToDiskCache(k, v) that
\* returns without throwing leaves the file of k holding v and the instant
\* of this write, whatever (fresh, stale, corrupt or no file) was there
\* before; and a read within TTL after it whose readFile does not fail
\* returns v with this write's timestamp.
C11_WriteReplaces ==
  [][/\ (IsWrite /\ DISK_CACHE_ENABLED /\ ~last'.threw)
        => store'[GetCacheFilePath(last'.key)] = Container(last'.at, last'.value)
     /\ (ReadsAfter("write") /\ DISK_CACHE_ENABLED /\ ~last.threw
           /\ last'.readOk /\ last'.at - last.at <= last'.ttl)
        => last'.out = DiskCacheHit(last.value, last.at)]_vars

\* C11 witness: a write has replaced an entry that an earlier write of the
\* run had stored, with another value and a later instant.
C11_Witness ==
  /\ last.op = "write"
  /\ ~last.threw
  /\ last.before.kind = "container"
  /\ last.before.timestamp > 0
  /\ last.before.timestamp < last.at
  /\ last.before.data # last.value
  /\ store[GetCacheFilePath(last.key)] = Container(last.at, last.value)

\* ------------------------------------------------------------ SpecQuote
RequiredNumbers ==
  {"02. open", "03. high", "04. low", "05. price", "08. previous close",
   "09. change"}
RequiredFields ==
  RequiredNumbers \cup {"10. change percent", "07. latest trading day"}

\* The texts of the fields in use, by what they are: a decimal numeral
\* (with digit-grouping commas), a numeral followed by %, a YYYY-MM-DD date.
IsNumeral(v) ==
  /\ v.type = "string"
  /\ v.val \in {"310.2500", "315.0000", "305.5000", "312.0000", "310.0000",
                "2.0000", "1,250"}
IsPercentage(v) == v.type = "string" /\ v.val = "0.6452%"
IsDate(v) == v.type = "string" /\ v.val = "2024-01-05"

\* A string a finite number can be parsed from: one that starts with a
\* decimal number.
StartsWithNumber(v) == IsNumeral(v) \/ IsPercentage(v) \/ v = JString("312abc")
IsNonBlankString(v) == v.type = "string" /\ v.val \notin {"", "   "}

\* A required field that is present and parseable: a number for the
\* numeric fields, a date for the latest trading day.
WellFormed(f, v) ==
  IF f = "07. latest trading day" THEN IsDate(v) ELSE StartsWithNumber(v)

\* A field value the code reads something from: a string that starts with
\* a finite number; for the date, any string that is not blank.

Readable(f, v) ==
  IF f = "07. latest trading day" THEN IsNonBlankString(v)
  ELSE StartsWithNumber(v)

QuoteNumbers(q) ==
  {q.open, q.high, q.low, q.price, q.previousClose, q.change, q.changePercent}

HasNumericClose(values) == StartsWithNumber(values.close)
FullyValid(values) ==
  /\ StartsWithNumber(values.open)
  /\ StartsWithNumber(values.high)
  /\ StartsWithNumber(values.low)
  /\ StartsWithNumber(values.close)

DatesWithClose(entries) ==
  {entries[i][1] : i \in {j \in DOMAIN entries : HasNumericClose(entries[j][2])}}
PointDates(points) == {points[i].date : i \in DOMAIN points}

\* C13: a series of n >= 1 dated entries of which m have a close that is
\* not a number, all others fully valid, is normalised without error to
\* n - m points, one for each date whose close is a number.
C13_DropsExactlyUnparseableClose ==
  (/\ ret # <<>>
   /\ arg.hasSeries
   /\ Len(arg.series) >= 1
   /\ \A i \in DOMAIN arg.series :
        HasNumericClose(arg.series[i][2]) => FullyValid(arg.series[i][2]))
    => LET r == ret[1].server
       IN /\ r.ok
          /\ Len(r.points) = Cardinality(DatesWithClose(arg.series))
          /\ PointDates(r.points) = DatesWithClose(arg.series)

\* C13 witness: three dated entries, the second with the close "N/A", have
\* been normalised to the two points of the other dates.
C13_Witness ==
  /\ ret # <<>>
  /\ Len(arg.series) = 3
  /\ arg.series[1][2] = GoodDay
  /\ arg.series[2][2] = [GoodDay EXCEPT !.close = JString("N/A")]
  /\ arg.series[3][2] = GoodDay
  /\ ret[1].server.ok
  /\ PointDates(ret[1].server.points) = {arg.series[1][1], arg.series[3][1]}

\* C14 as stated: normalisation fails whenever "Time Series (Daily)" is
\* absent or no point remains, the case where every dated entry was dropped
\* for its close included; no empty series is returned as a success, by the
\* server normaliser or by the browser parser.
C14_EmptySeriesFails ==
  ret # <<>>
    => /\ (~arg.hasSeries \/ DatesWithClose(arg.series) = {})
            => ~ret[1].server.ok
       /\ ret[1].server.ok => ret[1].server.points # <<>>
       /\ ret[1].browser.source = "api" => ret[1].browser.data # <<>>

\* C15 as stated: every daily series handed on, by getDailySeriesInternal
\* and by the browser query function (its mock data included), has at most
\* one point per date and is sorted ascending by date.
IsAscending(points) ==
  \A i, j \in DOMAIN points : i < j => DateGreater(points[j].date, points[i].date)

C15_SeriesAscendingUnique ==
  ret # <<>>
    => /\ ret[1].server.ok => IsAscending(ret[1].server.points)
       /\ IsAscending(ret[1].browser.data)

\* --------------------------------------------------------- SpecOverview
OverviewStrings(o) ==
  {o.assetType, o.name, o.description, o.exchange, o.sector, o.industry}

\* An overview field that is the no-value marker or a non-empty value.
AbsentOrNonEmpty(v) ==
  \/ v.type \in {"null", "undefined"}
  \/ v.type = "string" /\ Trim(v.val) # ""

\* C17 as stated: in every overview returned, by getCompanyOverviewInternal
\* and by the browser parseCompanyOverview, each field other than symbol is
\* the no-value marker or a non-empty value (an empty or blank upstream
\* string is never preserved), and a missing optional field never fails
\* the record.
C17_OverviewFieldsAbsentOrNonEmpty ==
  ret # <<>>
    => /\ ret[1].server.ok
       /\ \A v \in OverviewStrings(ret[1].server.overview) : AbsentOrNonEmpty(v)
       /\ ret[1].server.overview.marketCapitalization # ""
       /\ ret[1].browser.ok
            => \A v \in OverviewStrings(ret[1].browser.overview)
                       \cup {ret[1].browser.overview.marketCapitalization} :
                 AbsentOrNonEmpty(v)
       /\ (arg["Symbol"].type = "string"
            /\ \A f \in OverviewFields : arg[f] = GoodOverviewObject[f] \/ arg[f] = JUndefined)
            => ret[1].browser.ok

\* ------------------------------------------------------------- SpecPage
\* The stock page has returned.
StockPageReturned == arg.page = "stock" /\ Len(ret) = 1

\* The TIME_SERIES_DAILY request failed on the premium notice of the
\* upstream, "This is a Premium Endpoint.", and the adjusted series was
\* asked for.
PremiumFailure == Rejected("AlphaVantageError", PremiumInformation)

\* C16: the daily-series fetch never ends on the premium failure of the
\* TIME_SERIES_DAILY request; and when that request failed so and the
\* TIME_SERIES_DAILY_ADJUSTED request succeeded, the page holds the series
\* and the cachedAt of the adjusted request (its error when the series of
\* that payload cannot be read), and the first failure is no error of it.
C16_PremiumFallsBackToAdjusted ==
  StockPageReturned
    => /\ ~(/\ ParamValue(req[2], "function") = "TIME_SERIES_DAILY"
            /\ result[2] = PremiumFailure)
       /\ (firstTry = PremiumFailure /\ result[2].status = "fulfilled")
            => LET series == DailySeriesOf(SymbolOf(1), SeriesJson(payload[2]))
               IN /\ ParamValue(req[2], "function") = "TIME_SERIES_DAILY_ADJUSTED"
                  /\ result[2].data = payload[2]
                  /\ ret[1].series = series.points
                  /\ series.ok
                       => /\ ret[1].seriesCachedAt = result[2].cachedAt
                          /\ result[1].status = "fulfilled" => ret[1].error = JNull
                  /\ ~series.ok
                       => /\ ret[1].seriesCachedAt = JNull
                          /\ result[1].status = "fulfilled"
                               => ret[1].error =
                                    [name |-> "AlphaVantageError",
                                     message |-> series.message]

\* C16 witness: the stock page has returned the two days of the adjusted
\* series, fetched after TIME_SERIES_DAILY failed on the premium notice,
\* and reports no error.
C16_Witness ==
  /\ StockPageReturned
  /\ firstTry = PremiumFailure
  /\ ParamValue(req[2], "function") = "TIME_SERIES_DAILY_ADJUSTED"
  /\ http[2] = 1
  /\ Len(ret[1].series) = 2
  /\ ret[1].error = JNull

\* What the stock page reports of a fetch: its data and cachedAt, or their
\* absence (null; the empty list for the series).
Present(data, cachedAt, o) == data = o.data /\ cachedAt = o.cachedAt
Absent(data, cachedAt, none) == data = none /\ cachedAt = JNull

\* C18: when the stock page returns, each of the three fetches is reported
\* by its own outcome alone: one that succeeded has its data and cachedAt
\* in the result, one that failed is absent from it (null, the empty list
\* for the series), whatever the other two did.
C18_OutcomesCollectedIndependently ==
  StockPageReturned
    => LET page == ret[1]
       IN /\ \A p \in 1 .. 3 : Settled(p)
          /\ IF Outcome(1).status = "fulfilled"
             THEN Present(page.quote, page.quoteCachedAt, Outcome(1))
                    /\ page.quote.symbol = SymbolOf(1)
             ELSE Absent(page.quote, page.quoteCachedAt, JNull)
          /\ IF Outcome(2).status = "fulfilled"
             THEN Present(page.series, page.seriesCachedAt, Outcome(2))
             ELSE Absent(page.series, page.seriesCachedAt, <<>>)
          /\ IF Outcome(3).status = "fulfilled"
             THEN Present(page.overview, page.overviewCachedAt, Outcome(3))
                    /\ page.overview.symbol = SymbolOf(1)
                    /\ page.overviewError = JNull
             ELSE Absent(page.overview, page.overviewCachedAt, JNull)
                    /\ page.overviewError = Reason(Outcome(3))

\* C18 witness: the overview request was answered with HTTP 500 and the
\* page has returned with the quote and the two days of the series, and
\* without the overview.
C18_Witness ==
  /\ StockPageReturned
  /\ result[3] = Rejected("AlphaVantageError", HttpErrorMessage)
  /\ ret[1].quote # JNull
  /\ ret[1].quote.symbol = "TSLA"
  /\ Len(ret[1].series) = 2
  /\ ret[1].overview = JNull
  /\ ret[1].overviewError # JNull
  /\ ret[1].overviewError.message = HttpErrorMessage
  /\ ret[1].error = JNull

\* The home page has returned.
HomePageReturned == arg.page = "home" /\ ret # <<>>

\* A fetch of the page failed: on the network, on the HTTP status, on a
\* sentinel field, on the cache directory, or on the shape of the body.
FetchFailed(p) == Settled(p) /\ Outcome(p).status = "rejected"

\* What has to hold of a page that has returned: every fetch had settled;
\* the stock page returned a result, and the home page one card per ticker
\* of the list, in list order, each with either a quote and no error or an
\* error and no quote.
ReturnedWell ==
  /\ Len(ret) = 1 => \A p \in Fetchers : Settled(p)
  /\ StockPageReturned
       => DOMAIN ret[1] =
            {"quote", "quoteCachedAt", "series", "seriesCachedAt", "overview",
             "overviewCachedAt", "overviewError", "error"}
  /\ HomePageReturned
       => /\ DOMAIN ret[1] = 1 .. Len(HomeTickers)
          /\ \A i \in DOMAIN ret[1] :
               LET card == ret[1][i]
               IN /\ card.symbol = HomeTickers[i]
                  /\ (card.quote = JNull) # (card.error = JNull)
                  /\ FetchFailed(i) <=> card.quote = JNull
                  /\ card.quote # JNull => card.quote.symbol = HomeTickers[i]

\* The page is not stuck: it has not started, or one of its calls waits
\* for the file system or the network, or the adjusted series is about to
\* be asked for, or every fetch has settled and the page function goes on
\* to its return.
CanGoOn ==
  \/ \A p \in Fetchers : pc[p] = "idle"
  \/ \E p \in Fetchers : pc[p] \in {"readFile", "rm", "fetch", "mkdir", "writeFile"}
  \/ \E p \in Fetchers : FallsBack(p)
  \/ \A p \in Fetchers : Settled(p)

\* C19: whatever fails, no page is stopped short of its return, and what a
\* page returns is a result, never an error: for the home page one card
\* per supported ticker, in list order, in which exactly one of quote and
\* error is non-null.
C19_PagesAlwaysResolve == ReturnedWell /\ (ret = <<>> => CanGoOn)

\* C19 witness: the home page has returned its cards although the quote
\* of the first ticker failed on the network and that of the second on
\* the shape of its body; each card carries the error of its own fetch.
C19_Witness ==
  /\ HomePageReturned
  /\ Len(ret[1]) >= 2
  /\ ret[1][1] = [symbol |-> "CRWV", quote |-> JNull, cachedAt |-> JNull,
                  error |-> JString("fetch failed")]
  /\ ret[1][2] = [symbol |-> "NBIS", quote |-> JNull, cachedAt |-> JNull,
                  error |-> JString(UnexpectedShape("NBIS"))]

\* ------------------------------------------------------------- SpecMock
\* The mocks are asked for: VITE_USE_MOCKS is 'true', or the key is
\* missing, empty or blank.
MocksConfigured ==
  \/ arg.rawUseMocks = JString("true")
  \/ arg.rawApiKey \in {JUndefined, JString(""), JString("   ")}

\* C20: with the use-mocks flag set or the API key empty after trimming,
\* the overview and the daily-series query functions return the built-in
\* mock data of the ticker asked for, and the fetcher has not been called.
C20_MocksWithoutFetch ==
  (ret # <<>> /\ MocksConfigured)
    => /\ ret[1].fetches = 0
       /\ ret[1].source = "mock"
       /\ ret[1].query = "companyOverview"
            => /\ ret[1].data = GetMockOverview(arg.symbol)
               /\ ret[1].data.symbol = arg.symbol
               /\ ret[1].data.name = JString(arg.symbol \o " Holdings")
       /\ ret[1].query = "dailySeries"
            => /\ ret[1].data = GetMockDailySeries(arg.symbol)
               /\ Len(ret[1].data) = MockSeriesLength

\* C20 witness: no flag, a key of blanks only, ticker CRWV: the overview
\* query has returned the mock overview of CRWV and made no fetch.
C20_Witness ==
  /\ ret # <<>>
  /\ arg = [rawApiKey |-> JString("   "), rawUseMocks |-> JUndefined,
            symbol |-> "CRWV"]
  /\ ret[1].query = "companyOverview"
  /\ ret[1].fetches = 0
  /\ ret[1].data.name = JString("CRWV Holdings")
  /\ ret[1].data.marketCapitalization = JString("1000000000")

\* The mocks are not forced: the flag is off and a key is configured.
MocksNotForced ==
  /\ arg.rawUseMocks # JString("true")
  /\ arg.rawApiKey \in {JString("demo"), JString(" demo ")}

\* The request or the parse of its body failed: no connection, a non-2xx
\* status, a body with a sentinel field, or a body without the Symbol
\* (overview) or the series (daily) the schema asks for.
UpstreamOrParseFailed(response) ==
  \/ response.kind # "ok"
  \/ response.body \in {"NoteBody", "ErrorBody", "InformationBody"}
  \/ response.body = "EmptyBody"

\* The mock data of the ticker, for the query that was run.
MockOf(query, symbol) ==
  IF query = "companyOverview" THEN GetMockOverview(symbol)
  ELSE GetMockDailySeries(symbol)

\* C21: with mocks not forced, the fetcher is called once; the query
\* function always returns a value, which is the mock data of the same
\* ticker whenever the request or the parse failed, and data of the API
\* only when the request was answered 2xx with the valid body.
C21_FailureFallsBackToMock ==
  (ret # <<>> /\ MocksNotForced)
    => /\ ret[1].fetches = 1
       /\ ret[1].source \in {"api", "mock"}
       /\ UpstreamOrParseFailed(ret[1].response)
            => /\ ret[1].source = "mock"
               /\ ret[1].data = MockOf(ret[1].query, arg.symbol)
       /\ ret[1].source = "api"
            => /\ ret[1].response.kind = "ok"
               /\ ret[1].response.body \in {"OverviewBody", "DailyBody"}
               /\ ret[1].data # MockOf(ret[1].query, arg.symbol)

\* C21 witness: with a key configured and no flag, the OVERVIEW request of
\* NBIS was answered with a body the schema refuses, and the query has
\* returned the mock overview of NBIS after one call of the fetcher.
C21_Witness ==
  /\ ret # <<>>
  /\ arg = [rawApiKey |-> JString("demo"), rawUseMocks |-> JUndefined,
            symbol |-> "NBIS"]
  /\ ret[1].query = "companyOverview"
  /\ ret[1].response = [kind |-> "ok", body |-> "EmptyBody"]
  /\ ret[1].fetches = 1
  /\ ret[1].source = "mock"
  /\ ret[1].data.name = JString("NBIS Holdings")

\* ------------------------------------------------------------- SpecPage
\* The fifteen supported tickers.
SupportedSet == {TickerList[i] : i \in DOMAIN TickerList}

\* C22: every request a page has made names a supported ticker; a route
\* symbol that is no supported ticker in any case (MSFT, msft, none) ends
\* in not-found with no call started, no request sent and no file
\* touched, and a route symbol that is one in some case (tsla) is served
\* under its upper case.
C22_OnlySupportedTickers ==
  /\ Cardinality(SupportedSet) = 15
  /\ \A p \in Fetchers :
       req[p] # <<>> => ParamValue(req[p], "symbol") \in SupportedSet
  /\ (arg.page = "stock" /\ arg.symbol \in {"MSFT", "msft", ""})
       => /\ calls = 0
          /\ \A p \in Fetchers : pc[p] = "idle" /\ http[p] = 0 /\ wrote[p] = 0
          /\ store \in PageStores
          /\ Len(ret) \in {0, 2}
  /\ (arg.page = "stock" /\ arg.symbol \in {"TSLA", "tsla"})
       => /\ Len(ret) \in {0, 1}
          /\ \A p \in Fetchers :
               req[p] # <<>> => ParamValue(req[p], "symbol") = "TSLA"

\* C22 witness: the route /stocks/msft has ended in not-found without a
\* call, a request or a write, the directory being as an earlier run left
\* it.
C22_Witness ==
  /\ arg = [page |-> "stock", symbol |-> "msft"]
  /\ ret = <<"throw", "NEXT_NOT_FOUND">>
  /\ calls = 0
  /\ store = WarmStore

\* ------------------------------------------------------------------ Spec
\* Two calls for the same key have both ended after both missed the cache
\* and were both answered 2xx by the upstream.
BothFetched(p, q) ==
  /\ p # q
  /\ FromUpstream(p) /\ FromUpstream(q)
  /\ req[p] = req[q]
  /\ DISK_CACHE_ENABLED

\* C23 as stated: when two calls for one key both miss and both fetch,
\* each ends as its own payload makes it end (returning it, cachedAt the
\* instant it was fetched), and once both have ended the file of the key
\* holds the entry one of the two wrote.
C23_EachReturnsItsOwnPayload ==
  \A p, q \in Procs :
    BothFetched(p, q)
      => /\ result[p] = Settle(req[p], payload[p], ToISOString(fetchedAt[p]))
         /\ store[PathOf(p)] \in {Container(fetchedAt[p], payload[p]),
                                  Container(fetchedAt[q], payload[q])}

\* ------------------------------------------------------------- SpecPage
\* C24: a call of fetchAlphaVantage sends at most one request; the quote
\* and overview fetches make one call each and the daily-series fetch a
\* second one, never a third, only for TIME_SERIES_DAILY_ADJUSTED and only
\* after TIME_SERIES_DAILY failed on the premium notice; and the failure a
\* fetch ended with is the one the page reports for it.
C24_NoRetryButPremiumFallback ==
  /\ \A p \in Fetchers : http[p] <= 1
  /\ calls <= Cardinality(Fetchers) + 1
  /\ \A p \in Fetchers :
       req[p] \notin {<<>>, FirstRequest(p)}
         => /\ arg.page = "stock" /\ p = 2
            /\ calls = Cardinality(Fetchers) + 1
            /\ req[p] = DailyParams("TIME_SERIES_DAILY_ADJUSTED", SymbolOf(p))
            /\ firstTry = PremiumFailure
  /\ calls <= Cardinality(Fetchers) => firstTry = NoResult
  /\ StockPageReturned
       => /\ result[1].status = "rejected"
               => ret[1].error =
                    [name |-> result[1].error, message |-> result[1].message]
          /\ (result[1].status = "fulfilled" /\ result[2].status = "rejected")
               => ret[1].error =
                    [name |-> result[2].error, message |-> result[2].message]
          /\ result[3].status = "rejected"
               => ret[1].overviewError =
                    [name |-> result[3].error, message |-> result[3].message]
  /\ HomePageReturned
       => \A p \in Fetchers :
            result[p].status = "rejected"
              => ret[1][p].error = JString(result[p].message)

\* C24 witness: TIME_SERIES_DAILY failed on the premium notice, the one
\* request for the adjusted series was answered with HTTP 500, no third
\* call was made and the page reports the 500.
C24_Witness ==
  /\ StockPageReturned
  /\ firstTry = PremiumFailure
  /\ req[2] = DailyParams("TIME_SERIES_DAILY_ADJUSTED", "TSLA")
  /\ http[2] = 1
  /\ calls = 4
  /\ result[1].status = "fulfilled"
  /\ ret[1].error = [name |-> "AlphaVantageError", message |-> HttpErrorMessage]

\* --------------------------------------------------------- SpecSentinel
\* The non-empty texts among the three sentinel fields of the body.
SentinelTexts(json) ==
  {f.val : f \in {g \in {json.Note, json.ErrorMessage, json.Information} :
                    g.type = "string" /\ g.val # ""}}

\* C25 as stated, for one variant's check: it fails exactly when a
\* sentinel field holds a non-empty text, and then with the text of one.
SentinelCheckExact(json, outcome) ==
  /\ ~outcome.ok <=> SentinelTexts(json) # {}
  /\ ~outcome.ok => outcome.message \in SentinelTexts(json)

\* C25 as stated: in both variants the sentinel check fails a 2xx body
\* exactly when one of Note, Information, Error Message is present and
\* non-empty, with the text of a non-empty sentinel field as message.
C25_SentinelCheckExact ==
  ret # <<>>
    => /\ SentinelCheckExact(arg, ret[1].server)
       /\ SentinelCheckExact(arg, ret[1].browser)

\* ------------------------------------------------------------ SpecDaily
\* The entry has a close that is a number and an open, high or low that
\* is missing or is none.
Incomplete(values) == HasNumericClose(values) /\ ~FullyValid(values)

\* The text of the volume of an entry: "6. volume", else "5. volume".
VolumeOf(values) ==
  IF values.volume6 # JUndefined THEN values.volume6 ELSE values.volume5

\* The entry of the payload with the date of a point.
EntryOf(entries, date) ==
  entries[CHOOSE i \in DOMAIN entries : entries[i][1] = date][2]

\* C26: a series with a dated entry whose close is a number and whose
\* open, high or low is missing or unparseable fails as a whole, on one of
\* these three fields; a series without such an entry is normalised, its
\* entries without a numeric close being dropped whatever their open,
\* high and low, and each point has the volume of its entry, or null when
\* that is missing or unparseable.
C26_OpenHighLowRequired ==
  (ret # <<>> /\ arg.hasSeries /\ Len(arg.series) >= 1)
    => LET r == ret[1].server
           entries == arg.series
       IN /\ (\E i \in DOMAIN entries : Incomplete(entries[i][2]))
               => /\ ~r.ok
                  /\ r.message \in {MissingNumeric(f, "TSLA") :
                                       f \in {"open", "high", "low"}}
          /\ (\A i \in DOMAIN entries : ~Incomplete(entries[i][2]))
               => /\ r.ok
                  /\ PointDates(r.points) = DatesWithClose(entries)
                  /\ \A k \in DOMAIN r.points :
                       LET values == EntryOf(entries, r.points[k].date)
                       IN /\ r.points[k].open # NullNumber
                          /\ r.points[k].high # NullNumber
                          /\ r.points[k].low # NullNumber
                          /\ r.points[k].volume = NullNumber
                               <=> ~StartsWithNumber(VolumeOf(values))

\* C26 witness: of two entries the first has no low and the second is
\* valid, and the series has failed on the low; TLC also reaches the
\* series whose one entry has a volume that is no number, normalised to a
\* point with a null volume.
C26_Witness ==
  /\ ret # <<>>
  /\ Len(arg.series) = 2
  /\ arg.series[1][2] = [GoodDay EXCEPT !.low = JUndefined]
  /\ arg.series[2][2] = GoodDay
  /\ ~ret[1].server.ok
  /\ ret[1].server.message = MissingNumeric("low", "TSLA")

\* ----------------------------------------------------------------- Spec
\* The file of the caller's key holds an entry that a read would return now.
HoldsFreshEntry(p) == Lookup(store[PathOf(p)], now, DISK_CACHE_TTL_MS) = "hit"

\* The step is the end of the fs.rm of caller p.
RmSettles(p) == pc[p] = "rm" /\ pc'[p] = "fetch"

\* C27: a reader that found a stale or corrupt entry removes that entry
\* only: when its fs.rm settles, an entry that another fetch has written
\* for the key in the meantime, and that is fresh, is still in the store.
C27_ReaderKeepsFreshEntry ==
  [][\A p \in Procs :
       (RmSettles(p) /\ HoldsFreshEntry(p))
         => store'[PathOf(p)] = store[PathOf(p)]]_vars

\* The call of p has returned, ran with no other call in flight from its
\* start to its end, and follows a call for the same parameters that got a
\* 2xx response with a body no more than the TTL ago.
FollowsInWindow(p) ==
  /\ nodeEnv # "production"
  /\ pc[p] = "done"
  /\ prior[p].first # <<>>
  /\ prior[p].callNo = calls
  /\ now - prior[p].first[1].at <= DISK_CACHE_TTL_MS

\* The call of p was answered from the cache with what the earlier
\* response settles to, dated at the instant of that response.
AnsweredFromFirst(p) ==
  /\ http[p] = 0
  /\ result[p] = Settle(req[p], prior[p].first[1].data,
                        ToISOString(prior[p].first[1].at))

FirstStored(p) == prior[p].first[1].result.error \notin {"Error"}

SamePairs(a, b) == {a[i] : i \in DOMAIN a} = {b[i] : i \in DOMAIN b}

\* The fetches that have been called.
Started == {p \in DOMAIN pc : pc[p] # "idle"}

\* The step is a step of the call of p.
StepOf(p) == pc[p] # "idle" /\ pc'[p] # pc[p]

\* C29: a step of a call changes no file but the one of its own request,
\* which is the file of no started request that differs from it in the
\* function, the symbol or another parameter; a read that hits changes no
\* file at all; and no file changes but by a step of a call.
C29_EntriesIsolated ==
  [][/\ store' # store => \E p \in Started : StepOf(p)
     /\ \A p \in Started :
          StepOf(p) =>
            LET f == PathOf(p)
            IN /\ \A g \in DOMAIN store \ {f} : store'[g] = store[g]
               /\ \A q \in Started :
                    ~SamePairs(req[q], req[p]) => PathOf(q) # f
               /\ (pc[p] = "readFile" /\ pc'[p] = "done") => store' = store]_vars

\* C29 witness: on the stock page, started on an empty directory, the
\* three fetches have each written the body of their own endpoint to
\* their own file, and on the home page the quotes of two tickers are in
\* two files.
C29_Witness ==
  /\ ret = <<>>
  /\ arg.page = "stock"
  /\ \A p \in Fetchers :
       /\ pc[p] = "done"
       /\ wrote[p] = 1
       /\ store[PathOf(p)] = Container(fetchedAt[p], ValidBody(req[p]))
  /\ \A p, q \in Fetchers : p # q => store[PathOf(p)].data # store[PathOf(q)].data

\* ----------------------------------------------------------- SpecLoader
\* The restoration of the persisted client has ended: restorePromise has
\* resolved, or it has rejected and the key has been removed from
\* localStorage; without a window there is nothing to restore.
RestorationEnded ==
  \/ pc.restore = "none"
  \/ pc.restore = "resolved"
  \/ pc.restore = "rejected" /\ store[PersisterKey] = Removed

\* The request of the query failed and its queryFn took the mock.
FetchOfQueryFailed(q) ==
  /\ pc[q] = "settled"
  /\ result[q][1].source = "mock"
  /\ result[q][1].fetches = 1

\* C30: a query of the loader is started, and a request of it sent, only
\* once the restoration has ended; the loader fails only when
\* queryClientReady is rejected, before any fetch has started; and once
\* it has returned {symbol}, this is its return whatever the fetches do.
C30_LoaderWaitsForRestore ==
  /\ \A q \in Queries :
       (pc[q] # "none" \/ http[q] > 0)
         => /\ RestorationEnded
            /\ pc.ready = "fulfilled"
            /\ pc.loader = "returned"
            /\ ret = <<[symbol |-> arg.symbol]>>
  /\ pc.loader = "threw"
       => /\ pc.ready = "rejected"
          /\ \A q \in Queries : pc[q] = "none" /\ http[q] = 0
  /\ \A q \in Queries : http[q] <= 1

\* C30 witness: the restoration failed and the key was removed; the
\* loader, called before that, has returned {symbol}; the overview request
\* has failed and the daily-series request is in flight.
C30_Witness ==
  /\ pc.restore = "rejected"
  /\ store[PersisterKey] = Removed
  /\ pc.loader = "returned"
  /\ ret = <<[symbol |-> "TSLA"]>>
  /\ http = [q \in Queries |-> 1]
  /\ FetchOfQueryFailed("companyOverview")
  /\ pc.dailySeries = "fetching"
====
